---- MODULE Spec2Model ----
(***************************************************************************)
(* testa: a command-line scaffolding tool for test-automation projects.   *)
(*                                                                         *)
(* Text is modelled as a sequence of atoms (short strings): a file name    *)
(* "my-test.spec.ts" is <<"my", "-", "test", ".spec.", "ts">>, a route     *)
(* "/users/:id" is <<"/", "users", "/", ":", "id">>.  Regular expressions  *)
(* and string methods of the source act on these sequences atom by atom.   *)
(***************************************************************************)
EXTENDS Integers, Sequences, FiniteSets, TLC

VARIABLES
    tplIn,      \* template selector: the (testType, testName, appInfo) under test
    tplOut,     \* template selector: the text generateTestContent produced
    dirs,       \* generate: directories of the working directory
    files,      \* generate: test files of the working directory, path -> content
    now,        \* generate: the last reading of Date.now()
    exitCode,   \* generate: process exit status (0 while running)
    calls,      \* number of commands (or calls of generateTestContent) run so far
    lastGen,    \* generate: what the last generate command did
    tree,       \* scanner: the files of the application directory
    manifest,   \* scanner: dependencies of package.json
    scanOut,    \* scanner: the result of the last scan
    sIn,        \* substitution: template file content and configuration
    sOut        \* substitution: the file content written back

tplVars == <<tplIn, tplOut>>
genVars == <<dirs, files, now, exitCode, calls, lastGen>>
scanVars == <<tree, manifest, scanOut>>
substVars == <<sIn, sOut>>
vars == <<tplVars, genVars, scanVars, substVars>>

\* JavaScript's undefined, and the empty string: both are falsy, and the code
\* only ever tests the truthiness of the values that can be either.
None == <<>>

\* JavaScript truthiness of a value that is undefined, a text or an object.
Truthy(x) == x # None

----------------------------------------------------------------------------
(* String helpers *)

\* String.prototype.toLowerCase on one atom.
LowerAtom(a) ==
    CASE a = "A" -> "a"
      [] a = "B" -> "b"
      [] a = "API" -> "api"
      [] a = "Api" -> "api"
      [] a = "E2E" -> "e2e"
      [] a = "UI" -> "ui"
      [] a = "Ui" -> "ui"
      [] a = "WS" -> "ws"
      [] a = "WebSocket" -> "websocket"
      [] a = "Perf" -> "perf"
      [] a = "Performance" -> "performance"
      [] a = "Visual" -> "visual"
      [] a = "My" -> "my"
      [] a = "Flow" -> "flow"
      [] a = "Unit" -> "unit"
      [] a = "GET" -> "get"
      [] a = "POST" -> "post"
      [] a = "PUT" -> "put"
      [] a = "DELETE" -> "delete"
      [] a = "PATCH" -> "patch"
      [] a = "HEAD" -> "head"
      [] a = "Get" -> "get"
      [] a = "Post" -> "post"
      [] a = "Put" -> "put"
      [] a = "Delete" -> "delete"
      [] a = "Patch" -> "patch"
      [] a = "Login" -> "login"
      [] a = "UserCard" -> "usercard"
      [] OTHER -> a

\* String.prototype.toUpperCase on one atom.
UpperAtom(a) ==
    CASE LowerAtom(a) = "get" -> "GET"
      [] LowerAtom(a) = "post" -> "POST"
      [] LowerAtom(a) = "put" -> "PUT"
      [] LowerAtom(a) = "delete" -> "DELETE"
      [] LowerAtom(a) = "patch" -> "PATCH"
      [] LowerAtom(a) = "head" -> "HEAD"
      [] OTHER -> a

\* toLowerCase on a text.
Lower(s) == [i \in 1..Len(s) |-> LowerAtom(s[i])]

\* Array.prototype.includes / String.prototype.includes for one atom.
Includes(s, a) == \E i \in 1..Len(s) : s[i] = a

\* String.prototype.replace(/x/g, y) where x is one atom and y a text.
RECURSIVE ReplaceAtom(_, _, _)
ReplaceAtom(s, a, by) ==
    IF s = <<>> THEN <<>>
    ELSE (IF Head(s) = a THEN by ELSE <<Head(s)>>) \o ReplaceAtom(Tail(s), a, by)

----------------------------------------------------------------------------
(* Template Selector: generateTestContent and its helpers *)

\* One test(...) block of a generated file.
TestBlock(title, verb, url, payload, status, timeout) ==
    [title |-> title, verb |-> verb, url |-> url, payload |-> payload,
     status |-> status, timeout |-> timeout]

NoPayload == "none"

generateApiTestForMethod_StatusSlip(method, path) ==
    CASE method = "get" -> [verb |-> "get", url |-> path, payload |-> NoPayload, status |-> 200]
      [] method = "post" -> [verb |-> "post", url |-> path, payload |-> "name,email", status |-> 200]
      [] method = "put" -> [verb |-> "put", url |-> path, payload |-> "id,name,email", status |-> 200]
      [] method = "delete" -> [verb |-> "delete", url |-> path, payload |-> NoPayload, status |-> 200]
      [] method = "patch" -> [verb |-> "patch", url |-> path, payload |-> "name", status |-> 200]
      [] OTHER -> [verb |-> "get", url |-> path, payload |-> NoPayload, status |-> 200]

\* The success-path body for one HTTP method.
generateApiTestForMethod(method, path) ==
    CASE method = "get" -> [verb |-> "get", url |-> path, payload |-> NoPayload, status |-> 200]
      [] method = "post" -> [verb |-> "post", url |-> path, payload |-> "name,email", status |-> 201]
      [] method = "put" -> [verb |-> "put", url |-> path, payload |-> "id,name,email", status |-> 200]
      [] method = "delete" -> [verb |-> "delete", url |-> path, payload |-> NoPayload, status |-> 200]
      [] method = "patch" -> [verb |-> "patch", url |-> path, payload |-> "name", status |-> 200]
      [] OTHER -> [verb |-> "get", url |-> path, payload |-> NoPayload, status |-> 200]

\* The error-path request for one HTTP method.
generateApiErrorTestForMethod(method, path) ==
    CASE method = "get" -> [verb |-> "get", url |-> path \o <<"?invalid=true">>, payload |-> NoPayload]
      [] method = "post" -> [verb |-> "post", url |-> path, payload |-> "invalid_field"]
      [] method = "put" -> [verb |-> "put", url |-> path, payload |-> "invalid_field"]
      [] method = "delete" -> [verb |-> "delete", url |-> path \o <<"/999999">>, payload |-> NoPayload]
      [] method = "patch" -> [verb |-> "patch", url |-> path, payload |-> "invalid_field"]
      [] OTHER -> [verb |-> "get", url |-> path \o <<"/invalid">>, payload |-> NoPayload]

\* The generic UI template.
generateGenericUITest(testName) ==
    [tpl |-> "ui-generic", describe |-> testName, target |-> <<"/">>,
     tests |-> << TestBlock(<<"should display the correct title">>, "title", <<>>, NoPayload, 0, 0),
                  TestBlock(<<"should allow basic interaction">>, "click", <<>>, NoPayload, 0, 0),
                  TestBlock(<<"should navigate correctly">>, "click", <<>>, NoPayload, 0, 0) >>]

ApiTemplate_Generic(testName, appInfo) ==
    [tpl |-> "api-generic", describe |-> testName,
     target |-> <<"http://localhost:3000/api">>,
     tests |-> << TestBlock(<<"should return successful response">>,
                            "get", <<"/endpoint">>, NoPayload, 200, 0),
                  TestBlock(<<"should handle errors correctly">>,
                            "get", <<"/invalid-endpoint">>, NoPayload, 404, 0) >>]

\* case 'api' of generateTestContent.
ApiTemplate(testName, appInfo) ==
    IF appInfo # None /\ Truthy(appInfo.selectedEndpoint)
    THEN LET endpoint == appInfo.selectedEndpoint
             method == LowerAtom(endpoint.method)
             ok == generateApiTestForMethod(method, endpoint.path)
             ko == generateApiErrorTestForMethod(method, endpoint.path)
         IN [tpl |-> "api-endpoint", describe |-> testName,
             target |-> <<"http://localhost:3000">>,
             tests |-> << TestBlock(<<"should successfully ", method, " to ">> \o endpoint.path,
                                    ok.verb, ok.url, ok.payload, ok.status, 0),
                          TestBlock(<<"should handle errors correctly">>,
                                    ko.verb, ko.url, ko.payload, 400, 0) >>]
    ELSE [tpl |-> "api-generic", describe |-> testName,
          target |-> <<"http://localhost:3000/api">>,
          tests |-> << TestBlock(<<"should return successful response">>,
                                 "get", <<"/endpoint">>, NoPayload, 200, 0),
                       TestBlock(<<"should handle errors correctly">>,
                                 "get", <<"/invalid-endpoint">>, NoPayload, 404, 0) >>]

UiTemplate_FormsFlag(testName, appInfo) ==
    IF appInfo = None THEN generateGenericUITest(testName)
    ELSE IF appInfo.hasForms
    THEN [tpl |-> "ui-form", describe |-> testName \o <<" - Form Submission">>,
          target |-> <<"/">>, tests |-> <<>>]
    ELSE generateGenericUITest(testName)

UiTemplate_RouteFirst(testName, appInfo) ==
    IF appInfo = None THEN generateGenericUITest(testName)
    ELSE IF Truthy(appInfo.selectedRoute)
    THEN [tpl |-> "ui-route", describe |-> testName \o <<" - ">> \o appInfo.selectedRoute.path,
          target |-> appInfo.selectedRoute.path, tests |-> <<>>]
    ELSE IF Truthy(appInfo.selectedComponent)
    THEN [tpl |-> "ui-component", describe |-> testName, target |-> <<"/">>, tests |-> <<>>]
    ELSE IF appInfo.testTarget = "form"
    THEN [tpl |-> "ui-form", describe |-> testName, target |-> <<"/">>, tests |-> <<>>]
    ELSE IF Truthy(appInfo.testUrl)
    THEN [tpl |-> "ui-url", describe |-> testName, target |-> appInfo.testUrl, tests |-> <<>>]
    ELSE generateGenericUITest(testName)

\* case 'e2e' / 'ui' of generateTestContent.
UiTemplate(testName, appInfo) ==
    IF appInfo = None THEN generateGenericUITest(testName)
    ELSE IF appInfo.testTarget = "route" /\ Truthy(appInfo.selectedRoute)
    THEN LET route == appInfo.selectedRoute.path
         IN [tpl |-> "ui-route", describe |-> testName \o <<" - ">> \o route, target |-> route,
             tests |-> << TestBlock(<<"should load the page successfully">>, "toHaveURL",
                                    ReplaceAtom(route, ":", <<"[^/]+">>), NoPayload, 0, 0),
                          TestBlock(<<"should display expected elements">>, "toBeVisible",
                                    <<"header", "footer">>, NoPayload, 0, 0) >>]
    ELSE IF appInfo.testTarget = "component" /\ Truthy(appInfo.selectedComponent)
    THEN LET component == appInfo.selectedComponent.name
         IN [tpl |-> "ui-component",
             describe |-> testName \o <<" - ", component, " Component">>, target |-> <<"/">>,
             tests |-> << TestBlock(<<"should render the ", component, " component">>,
                                    "toBeVisible", <<"[data-testid=", LowerAtom(component), "]">>,
                                    NoPayload, 0, 0),
                          TestBlock(<<"should interact correctly">>, "none", <<>>,
                                    NoPayload, 0, 0) >>]
    ELSE IF appInfo.testTarget = "form"
    THEN LET formPath == IF Truthy(appInfo.formPath) THEN appInfo.formPath ELSE <<"/">>
         IN [tpl |-> "ui-form", describe |-> testName \o <<" - Form Submission">>,
             target |-> formPath,
             tests |-> << TestBlock(<<"should display the form">>, "toBeVisible",
                                    <<"form", "button[type=submit]">>, NoPayload, 0, 0),
                          TestBlock(<<"should submit the form successfully">>, "submit",
                                    <<".success-message">>, "username,password", 0, 0),
                          TestBlock(<<"should validate form inputs">>, "submit",
                                    <<".error-message">>, NoPayload, 0, 0) >>]
    ELSE IF Truthy(appInfo.testUrl)
    THEN LET url == appInfo.testUrl
         IN [tpl |-> "ui-url", describe |-> testName, target |-> url,
             tests |-> << TestBlock(<<"should load page successfully">>, "toHaveURL",
                                    url, NoPayload, 0, 0),
                          TestBlock(<<"should display key UI elements">>, "toBeVisible",
                                    <<"header", "main">>, NoPayload, 0, 0) >>]
    ELSE generateGenericUITest(testName)

DefaultSocketUrl == <<"ws://localhost:3000/ws">>

\* The three tests of the websocket template for a selected URL.
SocketTests ==
    << TestBlock(<<"should establish connection">>, "open", <<>>, NoPayload, 0, 0),
       TestBlock(<<"should send and receive message">>, "send", <<>>, "type,content", 0, 5000),
       TestBlock(<<"should handle disconnection properly">>, "close", <<>>, NoPayload, 0, 0) >>

\* The tests of the default websocket template.
DefaultSocketTests ==
    << TestBlock(<<"should establish connection">>, "open", <<>>, NoPayload, 0, 0),
       TestBlock(<<"should send and receive message">>, "send", <<>>, "type,content", 0, 0) >>

WsTemplate_IgnoreUrl(testName, appInfo) ==
    [tpl |-> "ws-default", describe |-> testName, target |-> DefaultSocketUrl,
     tests |-> DefaultSocketTests]

\* case 'websocket' / 'ws' of generateTestContent.
WsTemplate(testName, appInfo) ==
    IF appInfo # None /\ Truthy(appInfo.socketUrl)
    THEN [tpl |-> "ws-url", describe |-> testName, target |-> appInfo.socketUrl,
          tests |-> SocketTests]
    ELSE [tpl |-> "ws-default", describe |-> testName, target |-> DefaultSocketUrl,
          tests |-> DefaultSocketTests]

\* case 'performance' / 'perf' of generateTestContent.
PerfTemplate(testName) ==
    [tpl |-> "performance", describe |-> testName, target |-> <<"/">>,
     tests |-> << TestBlock(<<"should load page in less than 3 seconds">>, "goto",
                            <<"/">>, NoPayload, 0, 3000),
                  TestBlock(<<"should have good performance score">>, "evaluate",
                            <<"/">>, NoPayload, 80, 0) >>]

\* case 'visual' of generateTestContent.
VisualTemplate(testName) ==
    [tpl |-> "visual", describe |-> testName, target |-> <<"/">>,
     tests |-> << TestBlock(<<"should have correct appearance on desktop">>, "screenshot",
                            <<"desktop.png">>, NoPayload, 0, 0),
                  TestBlock(<<"should have correct appearance on mobile">>, "screenshot",
                            <<"mobile.png">>, NoPayload, 0, 0) >>]

BasicTemplate_Stamped(testName) ==
    [tpl |-> "basic", describe |-> testName \o <<ToString(calls)>>, target |-> <<"/">>,
     tests |-> << TestBlock(<<"basic test">>, "title", <<>>, NoPayload, 0, 0) >>]

\* default case of generateTestContent.
BasicTemplate(testName) ==
    [tpl |-> "basic", describe |-> testName, target |-> <<"/">>,
     tests |-> << TestBlock(<<"basic test">>, "title", <<>>, NoPayload, 0, 0) >>]

Template_CaseSensitive(testType, testName, appInfo) ==
    CASE testType = "api" -> ApiTemplate(testName, appInfo)
      [] testType = "e2e" -> UiTemplate(testName, appInfo)
      [] testType = "websocket" -> WsTemplate(testName, appInfo)
      [] testType = "performance" -> PerfTemplate(testName)
      [] testType = "visual" -> VisualTemplate(testName)
      [] OTHER -> BasicTemplate(testName)

\* The template text generateTestContent writes for (testType, testName, appInfo).
Template(testType, testName, appInfo) ==
    LET t == LowerAtom(testType)
    IN CASE t = "api" -> ApiTemplate(testName, appInfo)
         [] t \in {"e2e", "ui"} -> UiTemplate(testName, appInfo)
         [] t \in {"websocket", "ws"} -> WsTemplate(testName, appInfo)
         [] t \in {"performance", "perf"} -> PerfTemplate(testName)
         [] t = "visual" -> VisualTemplate(testName)
         [] OTHER -> BasicTemplate(testName)

----------------------------------------------------------------------------
(* Inputs of the template selector *)

\* The test categories tried: the dispatch set, other spellings, and others.
TestTypes ==
    {"api", "API", "e2e", "ui", "Ui", "websocket", "ws", "WS", "performance",
     "perf", "visual", "unit", "smoke"}

\* The test names tried by the template selector.
TplNames == {<<"a">>, <<"My", " ", "Login">>}

\* The HTTP methods an Endpoint can carry (upper-cased by the scan, or one of
\* the manual choices).
Methods == {"GET", "POST", "PUT", "DELETE", "PATCH"}

SomeEndpoints ==
    [method : Methods, path : {<<"/users">>, <<"/api/items">>}, file : {None}]

SomeRoute == [path |-> <<"/", "users", "/", ":", "id">>, file |-> <<"src", "App.tsx">>]
SomeComponent == [name |-> "Login", file |-> <<"src", "Login.tsx">>]

\* appInfo as analyzeApplication creates it, before any selection.
BlankInfo ==
    [endpoints |-> <<>>, components |-> <<>>, routes |-> <<>>, apiRoutes |-> <<>>,
     hasForms |-> FALSE, hasAuthentication |-> FALSE, hasWebSockets |-> FALSE,
     framework |-> "Unknown", socketImplementations |-> None,
     selectedEndpoint |-> None, testTarget |-> "undefined", selectedRoute |-> None,
     selectedComponent |-> None, formPath |-> None, testUrl |-> None,
     socketUrl |-> None]

ApiInfos ==
    {[BlankInfo EXCEPT !.selectedEndpoint = e, !.hasAuthentication = b] :
        e \in SomeEndpoints \cup {None}, b \in BOOLEAN}

UiInfos ==
    {[BlankInfo EXCEPT !.testTarget = t, !.selectedRoute = r, !.selectedComponent = c,
                       !.formPath = f, !.testUrl = u, !.hasForms = h] :
        t \in {"undefined", "route", "component", "form", "general"},
        r \in {None, SomeRoute}, c \in {None, SomeComponent},
        f \in {None, <<"/", "signup">>}, u \in {None, <<"/", "login">>},
        h \in BOOLEAN}

WsInfos ==
    {[BlankInfo EXCEPT !.socketUrl = u, !.hasWebSockets = h] :
        u \in {None, <<"ws://localhost:8080">>, DefaultSocketUrl}, h \in BOOLEAN}

AppInfos == ApiInfos \cup UiInfos \cup WsInfos \cup {None}

NotRendered == [tpl |-> "none"]

InitTpl ==
    /\ tplIn \in [testType : TestTypes, testName : TplNames, appInfo : AppInfos]
    /\ tplOut = NotRendered

MaxRenders == 2

\* generateTestContent computes the template for its arguments, and may be
\* called again with the same arguments.
Render ==
    /\ calls < MaxRenders
    /\ tplOut' = Template(tplIn.testType, tplIn.testName, tplIn.appInfo)
    /\ calls' = calls + 1
    /\ UNCHANGED tplIn

----------------------------------------------------------------------------
(* Structural Scanner: the application directory *)

\* A path is a sequence of segments below the scan root, and a segment is a
\* text: pages/users/[id].tsx is
\* << <<"pages">>, <<"users">>, <<"[", "id", "]", ".tsx">> >>.

Quotes == {"'", "\""}
Ws == {" ", "\n"}

AppJs ==
    <<"app.", "get", "(", "'", "/users", "'", ",", "handler", ")", "\n",
      "app.", "post", " ", "(", " ", "\"", "/users", "\"", ",", "handler", ")">>
ItemsTs ==
    <<"@", "Get", "(", "'", "/items", "'", ")", "\n", "login", "\n",
      "@", "Get", "(", "'", "/items", "'", ")", "\n",
      "app.", "delete", "(", "'", "/items", "/", ":", "id", "'", ")">>
NoRoutesJs ==
    <<"app.", "GET", "(", "'", "/shout", "'", ")", "\n",
      "app.", "get", "(", "'", "users", "'", ")", "\n",
      "app.", "use", "(", "'", "/mw", "'", ")", "\n",
      "app.", "put", "(", "'", "/open">>
InternalJs == <<"app.", "get", "(", "'", "/internal", "'", ")">>
BuiltJs == <<"app.", "patch", "(", "'", "/built", "'", ")">>
LoginTsx ==
    <<"export", " ", "default", " ", "function", " ", "Login", "(", ")", "\n",
      "<form", " ", "onSubmit", ">">>
AppTsx ==
    <<"export", " ", "const", " ", "App", "\n",
      "<Route", " ", "path=", "\"", "/", "users", "/", ":", "id", "\"", ">">>
PageTsx == <<"export", " ", "default", " ", "function", " ", "Page", "(", ")">>
SocketJs ==
    <<"socket.connect", "(", "'", "http://localhost:4000", "'", ")", "\n",
      "io", "(", "'", "http://localhost:5000", "'", ")", "\n",
      "socket.connect", " ", "(", "\"", "http://localhost:4000", "\"", ")">>
ClientTs == <<"new", " ", "WebSocket", "(", "'", "ws://localhost:8080", "'", ")">>

\* Every file the application directory may hold, with its content.
Universe ==
    (<< <<"src">>, <<"app", ".js">> >>                                :> AppJs) @@
    (<< <<"src">>, <<"routes">>, <<"items", ".ts">> >>                :> ItemsTs) @@
    (<< <<"src">>, <<"builder">>, <<"noroutes", ".js">> >>            :> NoRoutesJs) @@
    (<< <<"dist", ".js">> >>                                          :> BuiltJs) @@
    (<< <<"node_modules">>, <<"express">>, <<"index", ".js">> >>      :> InternalJs) @@
    (<< <<".git">>, <<"hooks", ".js">> >>                             :> InternalJs) @@
    (<< <<"src">>, <<"build">>, <<"out", ".js">> >>                   :> BuiltJs) @@
    (<< <<"src">>, <<"lib">>, <<"dist">>, <<"deep">>, <<"x", ".ts">> >> :> BuiltJs) @@
    (<< <<"src">>, <<"Login", ".tsx">> >>                             :> LoginTsx) @@
    (<< <<"src">>, <<"App", ".tsx">> >>                               :> AppTsx) @@
    (<< <<"src">>, <<"socket", ".js">> >>                             :> SocketJs) @@
    (<< <<"src">>, <<"client", ".ts">> >>                             :> ClientTs) @@
    (<< <<"src">>, <<"notes", ".md">> >>                              :> AppJs) @@
    (<< <<"pages">>, <<"index", ".tsx">> >>                           :> PageTsx) @@
    (<< <<"pages">>, <<"users">>, <<"[", "id", "]", ".tsx">> >>       :> PageTsx) @@
    (<< <<"pages">>, <<"users">>, <<"index", ".tsx">> >>              :> PageTsx) @@
    (<< <<"pages">>, <<"build">>, <<"about", ".tsx">> >>              :> PageTsx)

\* readdirSync lists the entries of a directory in this order of names.
DirOrder ==
    << <<".git">>, <<"App", ".tsx">>, <<"Login", ".tsx">>, <<"[", "id", "]", ".tsx">>,
       <<"about", ".tsx">>, <<"app", ".js">>, <<"build">>, <<"builder">>,
       <<"client", ".ts">>, <<"deep">>,
       <<"dist">>, <<"dist", ".js">>, <<"express">>, <<"hooks", ".js">>,
       <<"index", ".js">>, <<"index", ".tsx">>, <<"items", ".ts">>, <<"lib">>,
       <<"node_modules">>, <<"noroutes", ".js">>, <<"notes", ".md">>, <<"out", ".js">>,
       <<"pages">>, <<"routes">>, <<"socket", ".js">>, <<"src">>, <<"users">>,
       <<"x", ".ts">> >>

IsPrefix(d, p) == Len(d) <= Len(p) /\ SubSeq(p, 1, Len(d)) = d

\* fs.existsSync(dir) for a directory of the tree; the scan root always exists.
DirExists(t, d) == d = <<>> \/ \E p \in t : Len(p) > Len(d) /\ IsPrefix(d, p)

\* fs.readdirSync(dir, { withFileTypes: true }).
ReadDir(t, d) ==
    LET names == {p[Len(d) + 1] : p \in {q \in t : Len(q) > Len(d) /\ IsPrefix(d, q)}}
    IN SelectSeq(DirOrder, LAMBDA n : n \in names)

\* entry.isDirectory(): the entry has entries below it.
IsDirectory(t, p) == \E q \in t : Len(q) > Len(p) /\ IsPrefix(p, q)

\* entry.isFile().
IsFile(t, p) == p \in t

EndsWith_Any(name, ext) == name # <<>>

\* name.endsWith(ext) for an extension atom.
EndsWith(name, ext) == name # <<>> /\ name[Len(name)] = ext

SkippedDirs_NoDist == { <<"node_modules">>, <<".git">>, <<"build">> }

\* The directory names findFiles does not descend into.
SkippedDirs == { <<"node_modules">>, <<".git">>, <<"dist">>, <<"build">> }

RECURSIVE findFiles(_, _, _)
RECURSIVE FindIn(_, _, _, _)
\* The loop of findFiles over the entries of one directory.
FindIn(t, dir, exts, entries) ==
    IF entries = <<>> THEN <<>>
    ELSE LET name == Head(entries)
             fullPath == Append(dir, name)
             here == IF IsDirectory(t, fullPath)
                     THEN IF name \in SkippedDirs
                          THEN <<>>
                          ELSE findFiles(t, fullPath, exts)
                     ELSE IF IsFile(t, fullPath) /\ \E e \in exts : EndsWith(name, e)
                          THEN <<fullPath>>
                          ELSE <<>>
         IN here \o FindIn(t, dir, exts, Tail(entries))

\* findFiles(dir, extensions): the files below dir with one of the extensions.
findFiles(t, dir, exts) ==
    IF ~DirExists(t, dir) THEN <<>>
    ELSE FindIn(t, dir, exts, ReadDir(t, dir))

ScriptExts == {".js", ".ts", ".jsx", ".tsx"}

----------------------------------------------------------------------------
(* Structural Scanner: regular expressions *)

\* The atoms that begin with a slash.
SlashAtoms ==
    {"/", "/users", "/items", "/internal", "/built", "/shout", "/mw", "/open",
     "/api/items", "/api/endpoint"}

Min(S) == CHOOSE x \in S : \A y \in S : x <= y

\* \s* from position i: the first position that holds no whitespace.
SkipWs(c, i) ==
    Min({j \in i..(Len(c) + 1) : j = Len(c) + 1 \/ c[j] \notin Ws})

\* [^'"]* from position i: the first position that holds a quote.
NextQuote(c, i) ==
    Min({j \in i..(Len(c) + 1) : j = Len(c) + 1 \/ c[j] \in Quotes})

NoMatch == [ok |-> FALSE, at |-> 0, verb |-> "", capture |-> <<>>, next |-> 0]

\* A match of the tail of a pattern, as a match of the whole pattern that
\* starts at position i.
StartingAt(m, i) == IF m.ok THEN [m EXCEPT !.at = i] ELSE NoMatch

\* pattern.exec(content) with lastIndex = from - 1, for the matches ms of the
\* pattern at every position of the content: the leftmost match at or after from.
Exec(ms, from) ==
    LET hits == {i \in from..Len(ms) : ms[i].ok}
    IN IF hits = {} THEN NoMatch ELSE ms[Min(hits)]

RECURSIVE ExecAll(_, _)
\* while ((match = pattern.exec(content)) !== null) for a pattern with the g
\* flag: every match, each search starting where the last match ended; the
\* null that ends the loop resets lastIndex, so the next content is searched
\* from its start.
ExecAll(ms, from) ==
    LET m == Exec(ms, from)
    IN IF m.ok THEN <<m>> \o ExecAll(ms, m.next) ELSE <<>>

\* ['"](\/[^'"]*)['"] at position q.
QuotedPathAt(c, q) ==
    IF q + 1 > Len(c) THEN NoMatch
    ELSE IF c[q] \notin Quotes \/ c[q + 1] \notin SlashAtoms THEN NoMatch
    ELSE LET e == NextQuote(c, q + 2)
         IN IF e > Len(c) THEN NoMatch
            ELSE [ok |-> TRUE, at |-> q, verb |-> "", capture |-> SubSeq(c, q + 1, e - 1),
                  next |-> e + 1]

\* A match with its first capture group, the verb.
WithVerb(m, verb) == IF m.ok THEN [m EXCEPT !.verb = verb] ELSE NoMatch

\* lead(verb)\s*\(\s*['"](\/[^'"]*)['"] at position i.
RouteMatchAt(c, i, lead, verbs) ==
    IF i + 1 > Len(c) THEN NoMatch
    ELSE IF c[i] # lead \/ c[i + 1] \notin verbs THEN NoMatch
    ELSE LET p == SkipWs(c, i + 2)
         IN IF p > Len(c) THEN NoMatch
            ELSE IF c[p] # "(" THEN NoMatch
            ELSE WithVerb(StartingAt(QuotedPathAt(c, SkipWs(c, p + 1)), i), c[i + 1])

\* /app\.(get|post|put|delete|patch)\s*\(\s*['"](\/[^'"]*)['"]/g
expressRoutesPattern == [lead |-> "app.", verbs |-> {"get", "post", "put", "delete", "patch"}]
\* /@(Get|Post|Put|Delete|Patch)\s*\(\s*['"](\/[^'"]*)['"]/g
nestRoutesPattern == [lead |-> "@", verbs |-> {"Get", "Post", "Put", "Delete", "Patch"}]

\* The matches of a route pattern at every position of a content.
RouteMatches(c, pat) == [i \in 1..Len(c) |-> RouteMatchAt(c, i, pat.lead, pat.verbs)]

RouteExecAll_FirstOnly(c, from, pat) ==
    LET m == Exec(RouteMatches(c, pat), from)
    IN IF m.ok THEN <<m>> ELSE <<>>

\* while ((match = expressRoutesPattern.exec(content)) !== null), and the same
\* loop for nestRoutesPattern.
RouteExecAll(c, from, pat) == ExecAll(RouteMatches(c, pat), from)

\* The atoms that contain login, signin, authenticate or auth.
AuthAtoms == {"login", "signin", "authenticate", "auth", "/login"}

Endpoint(m, file) == [method |-> UpperAtom(m.verb), path |-> m.capture, file |-> file]

\* The body of the loop over the files in analyzeApiEndpoints, for one file.
ApiMatches(file) ==
    LET content == Universe[file]
        express == RouteExecAll(content, 1, expressRoutesPattern)
        nest == RouteExecAll(content, 1, nestRoutesPattern)
    IN [i \in 1..Len(express) |-> Endpoint(express[i], file)]
       \o [i \in 1..Len(nest) |-> Endpoint(nest[i], file)]

RECURSIVE ApiEndpointsOf(_)
\* The endpoints the loop over the files appends, in order.
ApiEndpointsOf(fileList) ==
    IF fileList = <<>> THEN <<>>
    ELSE ApiMatches(Head(fileList)) \o ApiEndpointsOf(Tail(fileList))

\* The authentication flag after the loop over the files.
ApiHasAuthentication(fileList) ==
    \E i \in 1..Len(fileList) : \E a \in AuthAtoms : Includes(Universe[fileList[i]], a)

----------------------------------------------------------------------------
(* Structural Scanner: UI structure *)

\* The atoms that match [A-Z][a-zA-Z0-9]* as a whole.
CapIdents == {"Login", "App", "Page", "UserCard"}

\* \s+ from position i: the position after the whitespace, or 0 without any.
SkipWs1(c, i) == IF i <= Len(c) /\ c[i] \in Ws THEN SkipWs(c, i) ELSE 0

\* ((function|const|class)\s+([A-Z][a-zA-Z0-9]*)|([A-Z][a-zA-Z0-9]*)) at q.
ComponentNameAt(c, q) ==
    IF q = 0 \/ q > Len(c) THEN NoMatch
    ELSE IF c[q] \in {"function", "const", "class"}
    THEN LET r == SkipWs1(c, q + 1)
         IN IF r = 0 \/ r > Len(c) THEN NoMatch
            ELSE IF c[r] \in CapIdents
            THEN [ok |-> TRUE, at |-> q, verb |-> "", capture |-> <<c[r]>>, next |-> r + 1]
            ELSE NoMatch
    ELSE IF c[q] \in CapIdents
    THEN [ok |-> TRUE, at |-> q, verb |-> "", capture |-> <<c[q]>>, next |-> q + 1]
    ELSE NoMatch

\* An optional group: the match with the group when there is one, else the
\* match without it.
OrElse(m, other) == IF m.ok THEN m ELSE other

\* componentPattern at position i:
\* /export\s+(default\s+)?((function|const|class)\s+([A-Z][a-zA-Z0-9]*)|([A-Z][a-zA-Z0-9]*))/g
ComponentMatchAt(c, i) ==
    IF i > Len(c) THEN NoMatch
    ELSE IF c[i] # "export" THEN NoMatch
    ELSE LET p == SkipWs1(c, i + 1)
             withDefault == IF p = 0 \/ p > Len(c) THEN NoMatch
                            ELSE IF c[p] = "default"
                            THEN ComponentNameAt(c, SkipWs1(c, p + 1))
                            ELSE NoMatch
         IN StartingAt(OrElse(withDefault, ComponentNameAt(c, p)), i)

\* routePattern at position i: /<Route\s+path=["'](\/[^"']*)["']/g
RouteElementAt(c, i) ==
    IF i > Len(c) THEN NoMatch
    ELSE IF c[i] # "<Route" THEN NoMatch
    ELSE LET p == SkipWs1(c, i + 1)
         IN IF p = 0 \/ p > Len(c) THEN NoMatch
            ELSE IF c[p] # "path=" THEN NoMatch
            ELSE StartingAt(QuotedPathAt(c, p + 1), i)

\* nextRoutePattern at position i: /\s+path:\s*["'](\/[^"']*)["']/g
RouteConfigAt(c, i) ==
    LET p == SkipWs1(c, i)
    IN IF p = 0 \/ p > Len(c) THEN NoMatch
       ELSE IF c[p] # "path:" THEN NoMatch
       ELSE StartingAt(QuotedPathAt(c, SkipWs(c, p + 1)), i)

\* The three patterns of the UI scan, by name.
UiMatchAt(c, i, pat) ==
    CASE pat = "component" -> ComponentMatchAt(c, i)
      [] pat = "route" -> RouteElementAt(c, i)
      [] pat = "nextRoute" -> RouteConfigAt(c, i)

\* while ((match = pattern.exec(content)) !== null) for a pattern of the UI scan.
UiExecAll(c, from, pat) == ExecAll([i \in 1..Len(c) |-> UiMatchAt(c, i, pat)], from)

\* The atoms that contain <form, <Form, onSubmit or handleSubmit.
FormAtoms == {"<form", "<Form", "onSubmit", "handleSubmit"}

RECURSIVE UiComponentsOf(_)
\* The components the first loop over the component files appends.
UiComponentsOf(fileList) ==
    IF fileList = <<>> THEN <<>>
    ELSE LET file == Head(fileList)
             ms == UiExecAll(Universe[file], 1, "component")
         IN [i \in 1..Len(ms) |-> [name |-> ms[i].capture[1], file |-> file]]
            \o UiComponentsOf(Tail(fileList))

UiHasForms(fileList) ==
    \E i \in 1..Len(fileList) : \E a \in FormAtoms : Includes(Universe[fileList[i]], a)

RECURSIVE UiRoutesOf(_)
\* The routes the second loop over the component files appends.
UiRoutesOf(fileList) ==
    IF fileList = <<>> THEN <<>>
    ELSE LET file == Head(fileList)
             rs == UiExecAll(Universe[file], 1, "route")
             ns == UiExecAll(Universe[file], 1, "nextRoute")
         IN [i \in 1..Len(rs) |-> [path |-> rs[i].capture, file |-> file]]
            \o [i \in 1..Len(ns) |-> [path |-> ns[i].capture, file |-> file]]
            \o UiRoutesOf(Tail(fileList))

RECURSIVE Join(_)
\* path.relative(pagesDir, file): the segments joined by slashes.
Join(segments) ==
    IF segments = <<>> THEN <<>>
    ELSE IF Len(segments) = 1 THEN segments[1]
    ELSE segments[1] \o <<"/">> \o Join(Tail(segments))

PageExts == {".js", ".jsx", ".ts", ".tsx"}

\* .replace(/\.(js|jsx|ts|tsx)$/, '')
StripExtension(s) ==
    IF s # <<>> /\ s[Len(s)] \in PageExts THEN SubSeq(s, 1, Len(s) - 1) ELSE s

\* .replace(/\/index$/, '')
StripIndex(s) ==
    IF Len(s) >= 2 /\ s[Len(s) - 1] = "/" /\ s[Len(s)] = "index"
    THEN SubSeq(s, 1, Len(s) - 2)
    ELSE s

RECURSIVE BracketsToColon(_)
\* .replace(/\[([^\]]+)\]/g, ':$1')
BracketsToColon(s) ==
    IF s = <<>> THEN <<>>
    ELSE IF s[1] # "[" THEN <<s[1]>> \o BracketsToColon(Tail(s))
    ELSE LET closes == {j \in 2..Len(s) : s[j] = "]"}
         IN IF closes = {} \/ Min(closes \cup {Len(s) + 1}) = 2
            THEN <<s[1]>> \o BracketsToColon(Tail(s))
            ELSE LET j == Min(closes)
                 IN <<":">> \o SubSeq(s, 2, j - 1) \o BracketsToColon(SubSeq(s, j + 1, Len(s)))

PagesDir == << <<"pages">> >>

\* The route derived from one file of the pages directory.
PageRoute(file) ==
    LET relativePath == Join(SubSeq(file, Len(PagesDir) + 1, Len(file)))
    IN <<"/">> \o BracketsToColon(StripIndex(StripExtension(relativePath)))

RECURSIVE PageRoutesOf(_)
\* The routes the loop over the page files appends.
PageRoutesOf(fileList) ==
    IF fileList = <<>> THEN <<>>
    ELSE LET file == Head(fileList)
             route == PageRoute(file)
         IN (IF route # <<"/">> THEN <<[path |-> route, file |-> file]>> ELSE <<>>)
            \o PageRoutesOf(Tail(fileList))

\* The files of the pages pass: nothing when the pages directory is missing.
PageFiles(t) == IF DirExists(t, PagesDir) THEN findFiles(t, PagesDir, PageExts) ELSE <<>>

\* The routes of the pages pass.
PagesPass(t) == PageRoutesOf(PageFiles(t))

----------------------------------------------------------------------------
(* Structural Scanner: websockets *)

\* The atoms in which /\b(WebSocket|ws|socket\.io|socketio|sock)\b/i matches.
PresenceAtoms ==
    {"WebSocket", "websocket", "ws", "WS", "socket.io", "socketio", "sock",
     "ws://localhost:8080", "ws://localhost:3000/ws"}

\* ["']([^"']*)["'] at position q.
QuotedAnyAt(c, q) ==
    IF q > Len(c) THEN NoMatch
    ELSE IF c[q] \notin Quotes THEN NoMatch
    ELSE LET e == NextQuote(c, q + 1)
         IN IF e > Len(c) THEN NoMatch
            ELSE [ok |-> TRUE, at |-> q, verb |-> "", capture |-> SubSeq(c, q + 1, e - 1),
                  next |-> e + 1]

\* call\s*\(\s*["']([^"']*)["'] from position p, the position after call.
CallUrlAt(c, p) ==
    LET q == SkipWs(c, p)
    IN IF q > Len(c) THEN NoMatch
       ELSE IF c[q] # "(" THEN NoMatch
       ELSE QuotedAnyAt(c, SkipWs(c, q + 1))

\* The three URL-capturing patterns of socketPatterns at position i.
SocketUrlAt(c, i, pat) ==
    IF i > Len(c) THEN NoMatch
    ELSE StartingAt(CASE pat = "newWebSocket" ->
                           IF c[i] # "new" THEN NoMatch
                           ELSE LET p == SkipWs1(c, i + 1)
                                IN IF p = 0 \/ p > Len(c) THEN NoMatch
                                   ELSE IF c[p] # "WebSocket" THEN NoMatch
                                   ELSE CallUrlAt(c, p + 1)
                     [] pat = "io" ->
                           IF c[i] # "io" THEN NoMatch ELSE CallUrlAt(c, i + 1)
                     [] pat = "socketConnect" ->
                           IF c[i] # "socket.connect" THEN NoMatch ELSE CallUrlAt(c, i + 1),
                    i)

\* while ((match = pattern.exec(content)) !== null) for a URL pattern.
SocketExecAll(c, from, pat) == ExecAll([i \in 1..Len(c) |-> SocketUrlAt(c, i, pat)], from)

\* The first pattern of socketPatterns has no g flag: exec never advances, so
\* the while loop over it never ends once the content matches.
PresenceLoops(file) == \E a \in PresenceAtoms : Includes(Universe[file], a)

\* match[1] of the first pattern: the identifier matched inside the atom.
PresenceIdentifier(a) ==
    IF a \in {"ws://localhost:8080", "ws://localhost:3000/ws"} THEN "ws" ELSE a

\* The first match of the first pattern in a content that matches it.
PresenceMatch(c) ==
    PresenceIdentifier(c[CHOOSE i \in 1..Len(c) :
                            /\ c[i] \in PresenceAtoms
                            /\ \A j \in 1..(i - 1) : c[j] \notin PresenceAtoms])

RECURSIVE SocketEntries(_, _)
\* if (match[1]) push({ file, url: match[1] }) for each match in order.
SocketEntries(file, matches) ==
    IF matches = <<>> THEN <<>>
    ELSE (IF Truthy(matches[1].capture)
          THEN <<[file |-> file, url |-> matches[1].capture]>> ELSE <<>>)
         \o SocketEntries(file, Tail(matches))

\* The entries the inner loop pushes for one file that does not match the
\* first pattern: one per URL match whose capture is not empty.
SocketEntriesOf(file) ==
    SocketEntries(file, SocketExecAll(Universe[file], 1, "newWebSocket")
                        \o SocketExecAll(Universe[file], 1, "io")
                        \o SocketExecAll(Universe[file], 1, "socketConnect"))

RECURSIVE SocketImplementationsOf(_)
SocketImplementationsOf(fileList) ==
    IF fileList = <<>> THEN <<>>
    ELSE SocketEntriesOf(Head(fileList)) \o SocketImplementationsOf(Tail(fileList))

RECURSIVE Unique_Sorted(_)
RECURSIVE Unique(_)
Unique_Sorted(list) ==
    IF list = <<>> THEN <<>>
    ELSE LET front == Unique_Sorted(SubSeq(list, 1, Len(list) - 1))
             last == list[Len(list)]
         IN IF \E i \in 1..Len(front) : front[i] = last THEN front ELSE <<last>> \o front

\* [...new Set(list)]: the distinct values in order of first occurrence.
Unique(list) ==
    IF list = <<>> THEN <<>>
    ELSE LET front == Unique(SubSeq(list, 1, Len(list) - 1))
             last == list[Len(list)]
         IN IF \E i \in 1..Len(front) : front[i] = last THEN front ELSE Append(front, last)

----------------------------------------------------------------------------
(* Structural Scanner: analyzeApplication *)

Range(s) == {s[i] : i \in 1..Len(s)}

\* package.json of the application directory: missing, or its dependencies.
NoManifest == [exists |-> FALSE, deps |-> {}]
Manifest(deps) == [exists |-> TRUE, deps |-> deps]

detectFramework(deps) ==
    IF "react" \in deps THEN "React"
    ELSE IF "vue" \in deps THEN "Vue"
    ELSE IF "angular" \in deps THEN "Angular"
    ELSE IF "express" \in deps THEN "Express"
    ELSE IF "next" \in deps THEN "Next.js"
    ELSE IF "nuxt" \in deps THEN "Nuxt.js"
    ELSE IF "nest" \in deps THEN "NestJS"
    ELSE IF "@nestjs/core" \in deps THEN "NestJS"
    ELSE "Unknown"

\* What the user may type at the free-text prompts.
ManualPaths == {<<"/api/endpoint">>}
ManualUrls == {<<"/">>, <<"/", "login">>}
ManualSocketUrls == {DefaultSocketUrl, <<"ws://localhost:8080">>}

\* One way a call of analyzeApplication can go: how it ended, the files it
\* read, the appInfo it built and the prompts it showed, in order.
Outcome(status, scanned, info, asked) ==
    [status |-> status, scanned |-> scanned, info |-> info, asked |-> asked,
     offered |-> <<>>]

\* An outcome whose list prompt offered these choices.
Offering(o, choices) == [o EXCEPT !.offered = choices]

ApiPrompt_OnlyWhenFound(fileList, info) ==
    {Outcome("ok", fileList, [info EXCEPT !.selectedEndpoint = e], <<"selectedEndpoint">>) :
        e \in IF Len(info.endpoints) > 0 THEN Range(info.endpoints) ELSE {None}}

\* The prompt of analyzeApiEndpoints: one of the endpoints found, or a method
\* and a path typed in when none was found.
ApiPrompt(fileList, info) ==
    {Outcome("ok", fileList, [info EXCEPT !.selectedEndpoint = e],
             IF Len(info.endpoints) > 0 THEN <<"selectedEndpoint">>
             ELSE <<"manualEndpoint", "manualMethod">>) :
        e \in IF Len(info.endpoints) > 0
              THEN Range(info.endpoints)
              ELSE [method : Methods, path : ManualPaths, file : {None}]}

\* The scan of analyzeApiEndpoints over the files found, then the prompt.
ApiScan(fileList, base) ==
    ApiPrompt(fileList, [base EXCEPT !.endpoints = ApiEndpointsOf(fileList),
                                     !.hasAuthentication = ApiHasAuthentication(fileList)])

analyzeApiEndpoints(t, base) == ApiScan(findFiles(t, <<>>, ScriptExts), base)

\* The choices of the target prompt of analyzeUiStructure.
UiTargets(info) ==
    (IF Len(info.components) > 0 THEN {"component"} ELSE {})
    \cup (IF Len(info.routes) > 0 THEN {"route"} ELSE {})
    \cup (IF info.hasForms THEN {"form"} ELSE {})
    \cup {"general"}

\* The prompt that follows the choice of a target.
UiChoices(info, target) ==
    IF target = "component" /\ Len(info.components) > 0
    THEN {[info EXCEPT !.testTarget = target, !.selectedComponent = c] :
             c \in Range(info.components)}
    ELSE IF target = "route" /\ Len(info.routes) > 0
    THEN {[info EXCEPT !.testTarget = target, !.selectedRoute = r] : r \in Range(info.routes)}
    ELSE IF target = "form"
    THEN {[info EXCEPT !.testTarget = target, !.formPath = f] : f \in ManualUrls}
    ELSE {[info EXCEPT !.testTarget = target]}

\* The prompts shown for a target: the target prompt, then its own prompt.
UiAsked(target) ==
    CASE target = "component" -> <<"testTarget", "selectedComponent">>
      [] target = "route" -> <<"testTarget", "selectedRoute">>
      [] target = "form" -> <<"testTarget", "formPath">>
      [] OTHER -> <<"testTarget">>

UiPrompt_UrlToo(scanned, info) ==
    {Outcome("ok", scanned, [i EXCEPT !.testUrl = u], UiAsked(i.testTarget) \o <<"testUrl">>) :
        i \in UNION {UiChoices(info, target) : target \in UiTargets(info)}, u \in ManualUrls}

\* The prompts of analyzeUiStructure: a target when a component or a route
\* was found, else a URL typed in.
UiPrompt(scanned, info) ==
    IF Len(info.components) > 0 \/ Len(info.routes) > 0
    THEN {Outcome("ok", scanned, i, UiAsked(i.testTarget)) :
             i \in UNION {UiChoices(info, target) : target \in UiTargets(info)}}
    ELSE {Outcome("ok", scanned, [info EXCEPT !.testUrl = u], <<"testUrl">>) :
             u \in ManualUrls}

\* The scan of analyzeUiStructure for React and Next.js, then the prompts.
UiScan(t, base, componentFiles) ==
    UiPrompt(componentFiles \o PageFiles(t),
             [base EXCEPT !.components = UiComponentsOf(componentFiles),
                          !.hasForms = UiHasForms(componentFiles),
                          !.routes = UiRoutesOf(componentFiles) \o PagesPass(t)])

analyzeUiStructure(t, base) ==
    IF base.framework \in {"React", "Next.js"}
    THEN UiScan(t, base, findFiles(t, <<>>, {".jsx", ".tsx"}))
    ELSE UiPrompt(<<>>, base)

\* The prompt of analyzeWebSockets: one of the distinct URLs found, or a URL
\* typed in when none was found.
WsChoose(fileList, base, impls, uniqueUrls) ==
    {Offering(Outcome("ok", fileList,
                      [base EXCEPT !.socketImplementations = impls, !.socketUrl = u],
                      <<"selectedUrl">>),
              uniqueUrls) : u \in Range(uniqueUrls)}

WsPrompt(fileList, base, impls) ==
    IF Len(impls) > 0
    THEN WsChoose(fileList, base, impls, Unique([i \in 1..Len(impls) |-> impls[i].url]))
    ELSE {Outcome("ok", fileList, [base EXCEPT !.socketUrl = u], <<"manualSocketUrl">>) :
             u \in ManualSocketUrls}

RECURSIVE PushedUntilLoop(_)
\* The entries in the local list socketImplementations once the scan has
\* entered the loop that never ends: those of the files before, then the
\* entry that loop pushes at every iteration.
PushedUntilLoop(fileList) ==
    IF fileList = <<>> THEN <<>>
    ELSE IF PresenceLoops(Head(fileList))
    THEN <<[file |-> Head(fileList), url |-> <<PresenceMatch(Universe[Head(fileList)])>>]>>
    ELSE SocketEntriesOf(Head(fileList)) \o PushedUntilLoop(Tail(fileList))

\* The scan of analyzeWebSockets over the files found, then the prompt; "hang"
\* stands for the loop that never ends, its appInfo showing the local list.
WsScan(fileList, base) ==
    IF \E i \in 1..Len(fileList) : PresenceLoops(fileList[i])
    THEN {Outcome("hang", fileList,
                  [base EXCEPT !.socketImplementations = PushedUntilLoop(fileList)], <<>>)}
    ELSE WsPrompt(fileList, base, SocketImplementationsOf(fileList))

analyzeWebSockets(t, base) == WsScan(findFiles(t, <<>>, ScriptExts), base)

\* The switch of analyzeApplication on the lower-cased test type.
AnalyzeByType(t, base, testType) ==
    IF LowerAtom(testType) = "api" THEN analyzeApiEndpoints(t, base)
    ELSE IF LowerAtom(testType) \in {"e2e", "ui"} THEN analyzeUiStructure(t, base)
    ELSE IF LowerAtom(testType) \in {"websocket", "ws"} THEN analyzeWebSockets(t, base)
    ELSE {Outcome("ok", <<>>, base, <<>>)}

analyzeApplication_CheckLast(t, m, testType) ==
    IF m.exists
    THEN AnalyzeByType(t, [BlankInfo EXCEPT !.framework = detectFramework(m.deps)], testType)
    ELSE {Outcome("error", o.scanned, o.info, o.asked) :
             o \in AnalyzeByType(t, BlankInfo, testType)}

\* analyzeApplication(appDir, testType): every result it can return, one per
\* way the user can answer the prompts; "error" stands for the thrown Error.
analyzeApplication(t, m, testType) ==
    IF ~m.exists THEN {Outcome("error", <<>>, BlankInfo, <<>>)}
    ELSE AnalyzeByType(t, [BlankInfo EXCEPT !.framework = detectFramework(m.deps)], testType)

----------------------------------------------------------------------------
(* The scanner on its own *)

MaxFiles == 3

Trees == {t \in SUBSET (DOMAIN Universe) : Cardinality(t) <= MaxFiles}

Manifests == {NoManifest, Manifest({"express"}), Manifest({"react", "express"}),
              Manifest({"vue"})}

ScanTypes == {"api", "e2e", "UI", "websocket", "visual"}

NotScanned == [status |-> "none"]

InitScan ==
    /\ tree \in Trees
    /\ manifest \in Manifests
    /\ scanOut = NotScanned

\* One call of analyzeApplication on the application directory.
Analyze ==
    /\ scanOut = NotScanned
    /\ \E testType \in ScanTypes :
          \E o \in analyzeApplication(tree, manifest, testType) :
              scanOut' = [status |-> o.status, scanned |-> o.scanned, info |-> o.info,
                          asked |-> o.asked, offered |-> o.offered,
                          testType |-> testType]
    /\ UNCHANGED <<tree, manifest>>

----------------------------------------------------------------------------
(* The generate command *)

RECURSIVE CollapseWs(_)
\* .replace(/\s+/g, '-')
CollapseWs(s) ==
    IF s = <<>> THEN <<>>
    ELSE IF s[1] \in Ws
    THEN <<"-">> \o CollapseWs(SubSeq(s, SkipWs(s, 1), Len(s)))
    ELSE <<s[1]>> \o CollapseWs(Tail(s))

\* testName.replace(/\s+/g, '-').toLowerCase()
Slug(testName) == Lower(CollapseWs(testName))

\* The switch of generateTest on the test type.
TargetDir(testType) ==
    LET t == LowerAtom(testType)
    IN CASE t = "api" -> "api"
         [] t \in {"e2e", "ui"} -> "e2e"
         [] t \in {"websocket", "ws"} -> "websocket"
         [] t \in {"performance", "perf"} -> "performance"
         [] t = "visual" -> "visual"
         [] OTHER -> testType

BasePath_DefaultTests(d) == IF <<"src", "e2e">> \in d THEN "src" ELSE "tests"

\* 'src' when src/e2e exists, else 'tests' when tests/e2e exists, else ''.
BasePath(d) ==
    IF <<"src", "e2e">> \in d THEN "src"
    ELSE IF <<"tests", "e2e">> \in d THEN "tests"
    ELSE ""

FileName_AlwaysSlug(testName) == Slug(testName) \o <<".spec.", "ts">>

\* The file name: the test name itself when it contains '.spec.', else the
\* slug with '.spec.ts' appended.
FileName(testName) ==
    IF Includes(testName, ".spec.") THEN testName
    ELSE Slug(testName) \o <<".spec.", "ts">>

\* The alternate file name, for the reading t of Date.now().
AltFileName(testName, t) == Slug(testName) \o <<"-", ToString(t), ".spec.", "ts">>

\* fs.writeFileSync(path, content).
WriteFile(f, path, content) ==
    [p \in DOMAIN f \cup {path} |-> IF p = path THEN content ELSE f[p]]

NoFiles == [p \in {} |-> NotRendered]

\* generateTest and generateTestContent: the exit status, the directories
\* and files left behind, and the path written.
generateTest(d, f, testType, testName, appInfo, t) ==
    LET targetDir == TargetDir(testType)
        basePath == BasePath(d)
        testDir == <<basePath, targetDir>>
        fileName == FileName(testName)
        testPath == <<basePath, targetDir, fileName>>
        exists == testPath \in DOMAIN f
        path == IF exists THEN <<basePath, targetDir, AltFileName(testName, t)>> ELSE testPath
    IN IF basePath = ""
       THEN [exit |-> 1, dirs |-> d, files |-> f, path |-> <<>>, existed |-> FALSE]
       ELSE [exit |-> 0, dirs |-> d \cup {testDir},
             files |-> WriteFile(f, path, Template(testType, testName, appInfo)),
             path |-> path, existed |-> exists]

MaxCalls == 3
MaxClock == 6

GenTypes == {"api", "ui"}
GenNames == {<<"a">>, <<"A">>, <<"a", "-", "5">>, <<"My", " ", "Login", " ", "\n", "Flow">>}

\* The working directories tried: with and without a test structure, with and
\* without an application to analyze.
GenWorlds ==
    { [dirs |-> {}, tree |-> {}, manifest |-> NoManifest],
      [dirs |-> {<<"tests", "e2e">>}, tree |-> {}, manifest |-> NoManifest],
      [dirs |-> {<<"src", "e2e">>},
       tree |-> {<< <<"src">>, <<"app", ".js">> >>}, manifest |-> Manifest({"express"})] }

InitGen ==
    /\ \E w \in GenWorlds : dirs = w.dirs /\ tree = w.tree /\ manifest = w.manifest
    /\ files = NoFiles
    /\ now = 5
    /\ exitCode = 0
    /\ calls = 0
    /\ lastGen = [op |-> "none"]

\* The options generateTest receives: the Scan Result when the analysis
\* returned one, no appInfo otherwise.
OptionsAppInfo(o) == IF o.status = "ok" THEN o.info ELSE None

CallsGenerateTest_Always(o, generateGeneric) == o.status # "hang"

\* Whether the generate command reaches generateTest: always without --analyze
\* and after an analysis that returned, after a thrown analysis only when the
\* user accepts the generic template, never while the analysis is still looping.
CallsGenerateTest(o, generateGeneric) ==
    o.status # "hang" /\ (o.status = "error" => generateGeneric)

\* The action of the generate command: the analysis when --analyze is set,
\* the offer of a generic template when it throws, then generateTest.
GenerateFrom(types, names) ==
    /\ \E testType \in types, testName \in names, analyze \in BOOLEAN :
         \E o \in (IF analyze THEN analyzeApplication(tree, manifest, testType)
                   ELSE {Outcome("skipped", <<>>, None, <<>>)}) :
           \E generateGeneric \in (IF o.status = "error" THEN BOOLEAN ELSE {TRUE}) :
             \E runs \in {CallsGenerateTest(o, generateGeneric)},
                appInfo \in {OptionsAppInfo(o)} :
               \E probe \in {generateTest(dirs, files, testType, testName, appInfo, now)} :
                 \E t \in (IF runs /\ probe.existed THEN now..MaxClock ELSE {now}) :
                   \E r \in {generateTest(dirs, files, testType, testName, appInfo, t)} :
                     /\ dirs' = IF runs THEN r.dirs ELSE dirs
                     /\ files' = IF runs THEN r.files ELSE files
                     /\ exitCode' = IF runs THEN r.exit ELSE 0
                     /\ now' = t
                     /\ calls' = calls + 1
                     /\ lastGen' = [op |-> "generate", testType |-> testType,
                                    testName |-> testName, analysis |-> o.status,
                                    accepted |-> generateGeneric,
                                    appInfo |-> appInfo, ran |-> runs,
                                    path |-> IF runs THEN r.path ELSE <<>>,
                                    existed |-> runs /\ r.existed,
                                    before |-> files, dirsBefore |-> dirs]
    /\ UNCHANGED <<tree, manifest>>

Generate == calls < MaxCalls /\ GenerateFrom(GenTypes, GenNames)

\* One generate command in a fresh working directory, over every category
\* and a wider choice of names.
OnceTypes == {"api", "API", "ui", "e2e", "ws", "websocket", "perf", "visual", "unit"}
OnceNames ==
    {<<"a">>, <<"My", " ", "Login", " ", "\n", "Flow">>, <<"a", ".spec.", "ts">>,
     <<"Login", ".spec.", "js">>}

OnceWorlds ==
    GenWorlds \cup
    { [dirs |-> {}, tree |-> {<< <<"src">>, <<"app", ".js">> >>},
       manifest |-> Manifest({"express"})],
      [dirs |-> {<<"tests", "e2e">>, <<"tests", "api">>},
       tree |-> {<< <<"src">>, <<"client", ".ts">> >>, << <<"src">>, <<"App", ".tsx">> >>},
       manifest |-> Manifest({"react", "express"})] }

\* The test files already there: none, or one written by an earlier command.
OnceFiles ==
    {NoFiles,
     WriteFile(NoFiles, <<"tests", "e2e", <<"a", ".spec.", "ts">> >>, BasicTemplate(<<"a">>))}

InitOnce ==
    /\ \E w \in OnceWorlds :
          /\ dirs = w.dirs /\ tree = w.tree /\ manifest = w.manifest
          /\ files \in (IF <<"tests", "e2e">> \in w.dirs THEN OnceFiles ELSE {NoFiles})
    /\ now = 5
    /\ exitCode = 0
    /\ calls = 0
    /\ lastGen = [op |-> "none"]

GenerateOnce == lastGen.op = "none" /\ GenerateFrom(OnceTypes, OnceNames)

----------------------------------------------------------------------------
(* Placeholder Substitution Engine *)

\* The placeholder tokens, each one atom of a text.
PLACEHOLDERS ==
    [PROJECT_NAME |-> "{{projectName}}", BASE_URL |-> "{{baseUrl}}",
     API_URL |-> "{{apiUrl}}", ADMIN_EMAIL |-> "{{adminEmail}}",
     ADMIN_PASSWORD |-> "{{adminPassword}}", USER_EMAIL |-> "{{userEmail}}",
     USER_PASSWORD |-> "{{userPassword}}"]

\* The replacement text String.prototype.replace inserts for one match: in the
\* replacement string $$ stands for a dollar sign and $& for the matched text.
ExpandReplacement(replacement, matched) ==
    LET Piece(a) == CASE a = "$$" -> <<"$">>
                      [] a = "$&" -> <<matched>>
                      [] OTHER -> <<a>>
        F[i \in 0..Len(replacement)] ==
            IF i = 0 THEN <<>> ELSE F[i - 1] \o Piece(replacement[i])
    IN F[Len(replacement)]

\* content.replace(new RegExp(token, 'g'), replacement)
ReplaceAll(content, token, replacement) ==
    ReplaceAtom(content, token, ExpandReplacement(replacement, token))

\* options.x || ''
OrEmpty(x) == IF Truthy(x) THEN x ELSE <<>>

\* The chain of replace calls of createProject on the content of one file.
ReplacePlaceholders(content, projectName, options) ==
    LET c1 == ReplaceAll(content, PLACEHOLDERS.PROJECT_NAME, projectName)
        c2 == ReplaceAll(c1, PLACEHOLDERS.BASE_URL, options.baseUrl)
        c3 == ReplaceAll(c2, PLACEHOLDERS.API_URL, options.apiUrl)
        c4 == ReplaceAll(c3, PLACEHOLDERS.ADMIN_EMAIL, OrEmpty(options.adminEmail))
        c5 == ReplaceAll(c4, PLACEHOLDERS.ADMIN_PASSWORD, OrEmpty(options.adminPassword))
        c6 == ReplaceAll(c5, PLACEHOLDERS.USER_EMAIL, OrEmpty(options.userEmail))
    IN ReplaceAll(c6, PLACEHOLDERS.USER_PASSWORD, OrEmpty(options.userPassword))

\* The extensions of the files whose content is rewritten.
ProcessedExts == {".json", ".js", ".ts", ".md", ".example", ".txt", ".html"}

ProcessFile_EveryFile(name, content, projectName, options) ==
    ReplacePlaceholders(content, projectName, options)

\* The body of the loop over filesToProcess, for one file: the content the
\* file holds afterwards.
ProcessFile(name, content, projectName, options) ==
    IF \E e \in ProcessedExts : EndsWith(name, e)
    THEN ReplacePlaceholders(content, projectName, options)
    ELSE content

MaxContent == 2

ContentAtoms ==
    {"{{projectName}}", "{{baseUrl}}", "{{apiUrl}}", "{{adminEmail}}", "{{adminPassword}}",
     "{{userEmail}}", "{{userPassword}}", "{{other}}", "text"}

RECURSIVE Texts(_, _)
\* The texts of at most n atoms of A.
Texts(A, n) ==
    IF n = 0 THEN {<<>>}
    ELSE LET shorter == Texts(A, n - 1)
         IN shorter \cup {Append(s, a) : s \in shorter, a \in A}

PlainOptions ==
    [baseUrl |-> <<"http://localhost:3000">>, apiUrl |-> <<"http://localhost:3000/api">>,
     adminEmail |-> <<"admin@example.com">>, adminPassword |-> <<"admin_password">>,
     userEmail |-> <<"user@example.com">>, userPassword |-> <<"user_password">>]

\* The project names and prompt answers tried.
Configs ==
    { [projectName |-> <<"shop">>, options |-> PlainOptions],
      [projectName |-> <<"shop">>,
       options |-> [PlainOptions EXCEPT !.adminEmail = None, !.userPassword = None]],
      [projectName |-> <<"{{baseUrl}}">>, options |-> PlainOptions],
      [projectName |-> <<"shop">>,
       options |-> [PlainOptions EXCEPT !.apiUrl = <<"{{projectName}}", "/api">>]],
      [projectName |-> <<"shop">>,
       options |-> [PlainOptions EXCEPT !.adminPassword = <<"pa", "$$", "word">>]],
      [projectName |-> <<"shop">>,
       options |-> [PlainOptions EXCEPT !.userPassword = <<"$&">>]] }

TemplateFileNames ==
    { <<"package", ".json">>, <<"logo", ".png">>, <<"{{projectName}}", ".ts">>,
      <<"config", ".json", ".bak">> }

\* getAllFiles(projectPath): every file below the project directory, the
\* copied template files among them.
getAllFiles(copied) == copied

NotProcessed == [done |-> FALSE]

InitSubst ==
    /\ sIn \in [name : TemplateFileNames, content : Texts(ContentAtoms, MaxContent),
                config : Configs]
    /\ sOut = NotProcessed

\* createProject reads one copied file, replaces the placeholders and writes
\* the file back under the same name.
Substitute ==
    /\ sOut = NotProcessed
    /\ sOut' = [done |-> TRUE, name |-> sIn.name,
                content |-> IF sIn.name \in getAllFiles(TemplateFileNames)
                            THEN ProcessFile(sIn.name, sIn.content, sIn.config.projectName,
                                             sIn.config.options)
                            ELSE sIn.content]
    /\ UNCHANGED sIn

----------------------------------------------------------------------------
(* The init command *)

\* A file init writes, in the shape of the files generate writes.
ConfigFile(kind, target) == [tpl |-> kind, describe |-> <<>>, target |-> target, tests |-> <<>>]

\* The sample test init writes for Playwright.
SampleTest ==
    [tpl |-> "sample", describe |-> <<>>, target |-> <<"/">>,
     tests |-> << TestBlock(<<"basic test">>, "title", <<>>, NoPayload, 0, 0) >>]

InitDirs_FeaturesOnly(features) ==
    {<<"tests", d>> : d \in {"api", "config", "utils", "models", "temp"}
                            \cup (features \cap {"websocket", "performance", "visual"})}

\* The directories initTestingInExistingProject creates for the features chosen.
InitDirs(features) ==
    {<<"tests", d>> : d \in {"api", "config", "e2e", "utils", "models", "temp"}
                            \cup (features \cap {"websocket", "performance", "visual"})}

\* The packages of the two npm install commands.
InstallCmd(framework, useTypescript) ==
    CASE framework = "playwright" ->
           {"playwright", "@playwright/test"}
           \cup (IF useTypescript THEN {"typescript", "ts-node", "@types/node"} ELSE {})
      [] framework = "cypress" ->
           {"cypress"} \cup (IF useTypescript THEN {"typescript", "@types/node"} ELSE {})
      [] framework = "selenium" ->
           {"selenium-webdriver"}
           \cup (IF useTypescript
                 THEN {"typescript", "ts-node", "@types/node", "@types/selenium-webdriver"}
                 ELSE {})
      [] OTHER -> {}

CommonUtilities == {"axios", "jest", "dotenv"}

\* The scripts written into package.json.
TestScripts(framework) ==
    [test |-> IF framework = "playwright" THEN "playwright test"
              ELSE IF framework = "cypress" THEN "cypress run" ELSE "jest",
     e2e |-> IF framework = "playwright" THEN "playwright test tests/e2e"
             ELSE IF framework = "cypress" THEN "cypress run" ELSE "jest tests/e2e",
     api |-> IF framework = "playwright" THEN "playwright test tests/api"
             ELSE IF framework = "cypress" THEN "cypress run --spec tests/api/**"
             ELSE "jest tests/api"]

\* The files of the working directory after init wrote its own.
InitFiles(f, framework, baseUrl) ==
    LET withConfig ==
            IF framework = "playwright"
            THEN WriteFile(WriteFile(f, <<"playwright.config.ts">>,
                                     ConfigFile("playwright-config", baseUrl)),
                           <<"tests", "e2e", <<"basic", ".spec.", "ts">> >>, SampleTest)
            ELSE f
    IN WriteFile(withConfig, <<".env">>, ConfigFile("env", baseUrl))

\* initTestingInExistingProject: directories, files, package.json and the
\* exit status; npmWorks tells whether the npm install commands succeed
\* (execSync throws when one fails, which ends the process with status 1).
initTestingInExistingProject(d, f, m, framework, baseUrl, useTypescript, features, npmWorks) ==
    [dirs |-> d \cup InitDirs(features),
     files |-> InitFiles(f, framework, baseUrl),
     manifest |-> IF npmWorks
                  THEN [m EXCEPT !.deps = @ \cup InstallCmd(framework, useTypescript)
                                            \cup CommonUtilities]
                  ELSE m,
     scripts |-> TestScripts(framework),
     exit |-> IF npmWorks THEN 0 ELSE 1]

InitFrameworks == {"playwright", "cypress", "selenium"}
InitFeatures == {{"auth", "api", "ui"}, {"auth", "api", "ui", "websocket", "visual"}}
InitUrls == {<<"http://localhost:3000">>}
InitPrompts == <<"baseUrl", "apiUrl", "useTypescript", "features">>

init_PromptFirst(d, f, m, framework, baseUrl, useTypescript, features, npmWorks) ==
    IF ~m.exists
    THEN [dirs |-> d, files |-> f, manifest |-> m, exit |-> 1, asked |-> InitPrompts,
          scripts |-> None]
    ELSE [asked |-> InitPrompts, dirs |-> d \cup InitDirs(features),
          files |-> InitFiles(f, framework, baseUrl), manifest |-> m, exit |-> 0,
          scripts |-> TestScripts(framework)]

\* The init command: the package.json check, the four prompts, then
\* initTestingInExistingProject.
init(d, f, m, framework, baseUrl, useTypescript, features, npmWorks) ==
    IF ~m.exists
    THEN [dirs |-> d, files |-> f, manifest |-> m, exit |-> 1, asked |-> <<>>,
          scripts |-> None]
    ELSE \* the answers are merged into the options and handed on
         LET r == initTestingInExistingProject(d, f, m, framework, baseUrl,
                                               useTypescript, features, npmWorks)
         IN [dirs |-> r.dirs, files |-> r.files, manifest |-> r.manifest, exit |-> r.exit,
             asked |-> InitPrompts, scripts |-> r.scripts]

----------------------------------------------------------------------------
(* The test command *)

\* The pattern of the tests to run: the flags override the argument, the
\* later flag the earlier one.
TestPattern(pattern, flags) ==
    IF "redis" \in flags THEN "redis.spec.ts"
    ELSE IF "websocket" \in flags THEN "websocket.spec.ts"
    ELSE IF "posts" \in flags THEN "posts.spec.ts"
    ELSE IF "auth" \in flags THEN "auth.spec.ts"
    ELSE pattern

BrowserOption(browser) == IF browser # "" /\ browser # "all" THEN "--project=" \o browser ELSE ""

\* The two commands the test command hands to execSync.
PlaywrightTest(pattern, flags, browser, mobile) ==
    <<"npx playwright test", TestPattern(pattern, flags), BrowserOption(browser),
      IF mobile THEN "--project=mobile-chrome --project=mobile-safari" ELSE "">>
ShowReport == <<"npx playwright show-report">>

\* A Playwright configuration file is in the working directory.
HasPlaywrightConfig(f) ==
    <<"playwright.config.ts">> \in DOMAIN f \/ <<"playwright.config.js">> \in DOMAIN f

test_NoReportOnFailure(f, pattern, flags, browser, mobile, report, passes, reportWorks) ==
    IF ~HasPlaywrightConfig(f) THEN [exit |-> 1, executed |-> <<>>]
    ELSE IF passes
    THEN [exit |-> 0, executed |-> << PlaywrightTest(pattern, flags, browser, mobile) >>
                                   \o (IF report THEN <<ShowReport>> ELSE <<>>)]
    ELSE [exit |-> 1, executed |-> << PlaywrightTest(pattern, flags, browser, mobile) >>]

\* The test command: the exit status and the commands run, in order.  passes
\* tells whether the test run succeeds, reportWorks whether show-report does;
\* a command that fails inside the try block leads to the catch block.
test(f, pattern, flags, browser, mobile, report, passes, reportWorks) ==
    IF ~HasPlaywrightConfig(f) THEN [exit |-> 1, executed |-> <<>>]
    ELSE IF passes /\ (~report \/ reportWorks)
    THEN [exit |-> 0, executed |-> << PlaywrightTest(pattern, flags, browser, mobile) >>
                                   \o (IF report THEN <<ShowReport>> ELSE <<>>)]
    ELSE [exit |-> 1, executed |-> << PlaywrightTest(pattern, flags, browser, mobile) >>
                                   \o (IF passes THEN <<ShowReport>> ELSE <<>>)
                                   \o (IF report THEN <<ShowReport>> ELSE <<>>)]

----------------------------------------------------------------------------
(* The init and test commands in one working directory *)

MaxCommands == 2

\* The working directories tried: with and without package.json, with and
\* without a Playwright configuration written by hand.
CliWorlds ==
    { [manifest |-> NoManifest, files |-> NoFiles],
      [manifest |-> Manifest({"express"}), files |-> NoFiles],
      [manifest |-> NoManifest,
       files |-> WriteFile(NoFiles, <<"playwright.config.js">>,
                           ConfigFile("playwright-config", <<"http://localhost:8080">>))],
      [manifest |-> Manifest({"react"}),
       files |-> WriteFile(NoFiles, <<".env">>, ConfigFile("env", <<"http://localhost:8080">>))] }

InitCli ==
    /\ \E w \in CliWorlds : manifest = w.manifest /\ files = w.files
    /\ dirs = {}
    /\ tree = {}
    /\ now = 5
    /\ exitCode = 0
    /\ calls = 0
    /\ lastGen = [op |-> "none"]

\* One run of `testa init`.
InitCommand ==
    /\ calls < MaxCommands
    /\ \E framework \in InitFrameworks, baseUrl \in InitUrls, useTypescript \in BOOLEAN,
          features \in InitFeatures, npmWorks \in BOOLEAN :
         \E r \in {init(dirs, files, manifest, framework, baseUrl, useTypescript,
                        features, npmWorks)} :
           /\ dirs' = r.dirs
           /\ files' = r.files
           /\ manifest' = r.manifest
           /\ exitCode' = r.exit
           /\ calls' = calls + 1
           /\ lastGen' = [op |-> "init", framework |-> framework, features |-> features,
                          asked |-> r.asked, scripts |-> r.scripts,
                          before |-> files, dirsBefore |-> dirs, manifestBefore |-> manifest]
    /\ UNCHANGED <<tree, now>>

TestBrowsers == {"chrome", "all"}
TestFlags == {{}, {"auth"}, {"auth", "websocket"}}

\* One run of `testa test login`.
TestCommand ==
    /\ calls < MaxCommands
    /\ \E flags \in TestFlags, browser \in TestBrowsers, mobile \in BOOLEAN,
          report \in BOOLEAN, passes \in BOOLEAN, reportWorks \in BOOLEAN :
         \E r \in {test(files, "login", flags, browser, mobile, report, passes, reportWorks)} :
           /\ exitCode' = r.exit
           /\ calls' = calls + 1
           /\ lastGen' = [op |-> "test", flags |-> flags, browser |-> browser,
                          mobile |-> mobile, report |-> report,
                          configured |-> HasPlaywrightConfig(files),
                          passed |-> r.executed # <<>> /\ passes,
                          executed |-> r.executed]
    /\ UNCHANGED <<dirs, files, manifest, tree, now>>

----------------------------------------------------------------------------
(* The create command *)

\* The directories createProject makes below the project path.
CreateDirs(features) ==
    {<<"src", "api">>, <<"src", "config">>, <<"src", "e2e">>, <<"src", "utils">>,
     <<"src", "models">>, <<"temp">>}
    \cup {<<"src", d>> : d \in features \cap {"websocket", "performance", "visual"}}

\* The frameworks that have a directory below templates/.
HasTemplate(framework) == framework = "playwright"

\* The directories of templates/playwright.
TemplateDirs == {<<"src", "config">>, <<"src", "models">>}

\* fs.copySync(templatePath, projectPath): the files of templates/playwright.
CopyTemplate(f) ==
    LET f1 == WriteFile(f, <<"package.json">>, ConfigFile("package", <<>>))
        f2 == WriteFile(f1, <<"playwright.config.ts">>,
                        ConfigFile("playwright-config", <<"{{baseUrl}}">>))
        f3 == WriteFile(f2, <<"src", "config", <<"environments", ".ts">> >>,
                        ConfigFile("environments", <<"{{baseUrl}}">>))
    IN WriteFile(f3, <<"src", "models", <<"user", ".model", ".ts">> >>,
                 ConfigFile("user-model", <<>>))

\* createBasicFiles(projectPath, options): the default file set written when
\* the framework has no template directory; one file stands for the set.
createBasicFiles(f) == WriteFile(f, <<"README.md">>, ConfigFile("readme", <<>>))

createProject_EveryFeature(d, f, framework, baseUrl, useTypescript, features, npmWorks) ==
    [dirs |-> d \cup CreateDirs({"websocket", "performance", "visual"}),
     files |-> WriteFile(f, <<".env">>, ConfigFile("env", baseUrl)),
     manifest |-> NoManifest,
     exit |-> IF npmWorks THEN 0 ELSE 1]

\* createProject: the directories, files and package.json of the project
\* path and the exit status; npmWorks tells whether the npm and npx commands
\* succeed (execSync throws when one fails, which ends the process with
\* status 1 after the directories and files are written).
createProject(d, f, framework, baseUrl, useTypescript, features, npmWorks) ==
    [dirs |-> d \cup CreateDirs(features)
                \cup (IF HasTemplate(framework) THEN TemplateDirs ELSE {}),
     files |-> WriteFile(IF HasTemplate(framework) THEN CopyTemplate(f)
                         ELSE createBasicFiles(f),
                         <<".env">>, ConfigFile("env", baseUrl)),
     manifest |-> IF npmWorks
                  THEN Manifest(InstallCmd(framework, useTypescript) \cup CommonUtilities)
                  ELSE IF HasTemplate(framework) THEN Manifest({}) ELSE NoManifest,
     exit |-> IF npmWorks THEN 0 ELSE 1]

\* The answers to the feature checklist of create tried.
CreateFeatures ==
    {{}, {"auth", "api", "ui"}, {"auth", "api", "ui", "websocket", "visual"},
     {"performance"}}

----------------------------------------------------------------------------
(* create or init, then generate, in one directory *)

\* The directories a command may find: nothing, a hand-made tests/e2e, a
\* hand-made src/e2e; each with a package.json.
FlowWorlds ==
    { [dirs |-> {}, manifest |-> Manifest({"express"})],
      [dirs |-> {<<"tests", "e2e">>}, manifest |-> Manifest({"express"})],
      [dirs |-> {<<"src", "e2e">>}, manifest |-> Manifest({"react"})],
      [dirs |-> {}, manifest |-> NoManifest] }

InitFlow ==
    /\ \E w \in FlowWorlds : dirs = w.dirs /\ manifest = w.manifest
    /\ files = NoFiles
    /\ tree = {<< <<"src">>, <<"app", ".js">> >>}
    /\ now = 5
    /\ exitCode = 0
    /\ calls = 0
    /\ lastGen = [op |-> "none"]

\* One run of `testa create <projectName>`, seen from the project path.
CreateCommand ==
    /\ calls < MaxCommands
    /\ \E framework \in InitFrameworks, baseUrl \in InitUrls, useTypescript \in BOOLEAN,
          features \in CreateFeatures, npmWorks \in BOOLEAN :
         \E r \in {createProject(dirs, files, framework, baseUrl, useTypescript,
                                 features, npmWorks)} :
           /\ dirs' = r.dirs
           /\ files' = r.files
           /\ manifest' = r.manifest
           /\ exitCode' = r.exit
           /\ calls' = calls + 1
           /\ lastGen' = [op |-> "create", framework |-> framework, features |-> features,
                          before |-> files, dirsBefore |-> dirs]
    /\ UNCHANGED <<tree, now>>

FlowTypes == {"api", "ui", "ws", "unit"}
FlowNames == {<<"a">>}

\* One run of `testa generate` in the directory of the earlier command.
GenerateNext == calls < MaxCommands /\ GenerateFrom(FlowTypes, FlowNames)

----------------------------------------------------------------------------
(* Specifications: one per component; the other components stay idle *)

IdleTpl ==
    /\ tplIn = [testType |-> "api", testName |-> <<"a">>, appInfo |-> None]
    /\ tplOut = NotRendered

IdleGen ==
    /\ dirs = {} /\ files = NoFiles /\ now = 5 /\ exitCode = 0 /\ calls = 0
    /\ lastGen = [op |-> "none"]

IdleScan == tree = {} /\ manifest = NoManifest /\ scanOut = NotScanned

IdleSubst ==
    /\ sIn = [name |-> <<"package", ".json">>, content |-> <<>>,
              config |-> [projectName |-> <<"shop">>, options |-> PlainOptions]]
    /\ sOut = NotProcessed

\* The template selector.
NextTpl ==
    Render /\ UNCHANGED <<dirs, files, now, exitCode, lastGen, scanVars, substVars>>
StartTpl == InitTpl /\ IdleGen /\ IdleScan /\ IdleSubst
SpecTpl == StartTpl /\ [][NextTpl]_vars

\* The structural scanner.
NextScan == Analyze /\ UNCHANGED <<tplVars, genVars, substVars>>
StartScan == InitScan /\ IdleTpl /\ IdleGen /\ IdleSubst
SpecScan == StartScan /\ [][NextScan]_vars

\* The generate command, run again and again in one working directory.
NextGen == Generate /\ scanOut' = scanOut /\ UNCHANGED <<tplVars, substVars>>
StartGen == InitGen /\ scanOut = NotScanned /\ IdleTpl /\ IdleSubst
SpecGen == StartGen /\ [][NextGen]_vars

\* The generate command, run once over every category.
NextOnce == GenerateOnce /\ scanOut' = scanOut /\ UNCHANGED <<tplVars, substVars>>
StartOnce == InitOnce /\ scanOut = NotScanned /\ IdleTpl /\ IdleSubst
SpecOnce == StartOnce /\ [][NextOnce]_vars

\* The init and test commands.
NextCli ==
    (InitCommand \/ TestCommand) /\ scanOut' = scanOut /\ UNCHANGED <<tplVars, substVars>>
StartCli == InitCli /\ scanOut = NotScanned /\ IdleTpl /\ IdleSubst
SpecCli == StartCli /\ [][NextCli]_vars

\* create, init and generate, one after another in the same directory.
NextFlow ==
    (CreateCommand \/ InitCommand \/ GenerateNext)
    /\ scanOut' = scanOut /\ UNCHANGED <<tplVars, substVars>>
StartFlow == InitFlow /\ scanOut = NotScanned /\ IdleTpl /\ IdleSubst
SpecFlow == StartFlow /\ [][NextFlow]_vars

\* The substitution engine.
NextSubst == Substitute /\ UNCHANGED <<tplVars, genVars, scanVars>>
StartSubst == InitSubst /\ IdleTpl /\ IdleGen /\ IdleScan
SpecSubst == StartSubst /\ [][NextSubst]_vars

Init == StartGen
Next == NextGen
Spec == SpecGen

----------------------------------------------------------------------------
(* The generate command: collisions *)

\* C1: no generate call changes the content of a test file that already
\* existed when the call started; an existing test file is never overwritten,
\* whatever the names, the categories and the clock readings.
C1_NeverOverwrites ==
    lastGen.op = "generate" =>
        \A p \in DOMAIN lastGen.before : p \in DOMAIN files /\ files[p] = lastGen.before[p]

\* The directory a generate call writes into, and the first file of a name.
C2_Dir == <<BasePath(dirs), TargetDir(lastGen.testType)>>
C2_First == C2_Dir \o <<Slug(lastGen.testName) \o <<".spec.", "ts">> >>
C2_Added == DOMAIN files \ DOMAIN lastGen.before

\* C2: for a name without '.spec.', a generate call writes exactly
\* <slug>.spec.ts when that file does not exist; when it exists the call is not
\* an error, writes one new file <slug>-<timestamp>.spec.ts in the same
\* directory and leaves the content of the first file unchanged.
C2_CollisionWritesOneNewFile ==
    (lastGen.op = "generate" /\ lastGen.ran /\ BasePath(dirs) # ""
        /\ ~Includes(lastGen.testName, ".spec.")) =>
        IF C2_First \notin DOMAIN lastGen.before
        THEN C2_Added = {C2_First} /\ lastGen.path = C2_First
        ELSE /\ exitCode = 0
             /\ C2_Added = {C2_Dir \o <<Slug(lastGen.testName)
                                          \o <<"-", ToString(now), ".spec.", "ts">> >>}
             /\ files[C2_First] = lastGen.before[C2_First]

----------------------------------------------------------------------------
(* The template selector: api *)

\* C3: for a selected endpoint whose method is get, post, put, patch or
\* delete, the success test asserts status 201 for post and 200 for the other
\* four, and it carries a payload exactly when the method is post, put or patch.
C3_StatusAndPayload ==
    (tplOut # NotRendered /\ LowerAtom(tplIn.testType) = "api" /\ tplIn.appInfo # None
        /\ Truthy(tplIn.appInfo.selectedEndpoint)
        /\ LowerAtom(tplIn.appInfo.selectedEndpoint.method)
              \in {"get", "post", "put", "patch", "delete"}) =>
        /\ tplOut.tests[1].status
              = IF LowerAtom(tplIn.appInfo.selectedEndpoint.method) = "post" THEN 201 ELSE 200
        /\ (tplOut.tests[1].payload # NoPayload)
              <=> (LowerAtom(tplIn.appInfo.selectedEndpoint.method) \in {"post", "put", "patch"})

\* A rendered template for a selected POST endpoint: status 201 and a payload.
C3_Witness ==
    /\ tplOut # NotRendered /\ tplIn.testType = "api" /\ tplIn.appInfo # None
    /\ Truthy(tplIn.appInfo.selectedEndpoint)
    /\ tplIn.appInfo.selectedEndpoint.method = "POST"
    /\ tplOut.tests[1].status = 201
    /\ tplOut.tests[1].payload # NoPayload

----------------------------------------------------------------------------
(* The structural scanner: api *)

\* The positions of a scanned file where one of the route patterns matches.
C4_Positions(file, pat) ==
    {i \in 1..Len(Universe[file]) : RouteMatchAt(Universe[file], i, pat.lead, pat.verbs).ok}

\* The matches of both patterns over all scanned files.
C4_AllMatches ==
    UNION {{<<file, pat, i>> : i \in C4_Positions(file, pat)} :
              file \in Range(scanOut.scanned),
              pat \in {expressRoutesPattern, nestRoutesPattern}}

\* The endpoint a match stands for: the verb upper-cased and the captured path.
C4_EndpointOf(x) ==
    [method |-> UpperAtom(Universe[x[1]][x[3] + 1]),
     path |-> RouteMatchAt(Universe[x[1]], x[3], x[2].lead, x[2].verbs).capture,
     file |-> x[1]]

\* The entries a scan holds for one file, in order, without the file.
C4_EntriesOf(file) ==
    LET own == SelectSeq(scanOut.info.endpoints, LAMBDA e : e.file = file)
    IN [k \in 1..Len(own) |-> <<own[k].method, own[k].path>>]

\* C4: the API scan appends one Endpoint per match of the two route patterns
\* in each scanned file, verb upper-cased, path as captured, duplicates kept;
\* app.get('/users') with app.post('/users') yields {GET, /users} and
\* {POST, /users}; the number of endpoints is the total number of matches.
C4_OneEndpointPerMatch ==
    (scanOut.status = "ok" /\ scanOut.testType = "api") =>
        /\ Len(scanOut.info.endpoints) = Cardinality(C4_AllMatches)
        /\ \A e \in Range(scanOut.info.endpoints) :
              Cardinality({k \in 1..Len(scanOut.info.endpoints) : scanOut.info.endpoints[k] = e})
                 = Cardinality({x \in C4_AllMatches : C4_EndpointOf(x) = e})
        /\ \A x \in C4_AllMatches : C4_EndpointOf(x) \in Range(scanOut.info.endpoints)
        /\ << <<"src">>, <<"app", ".js">> >> \in tree =>
              C4_EntriesOf(<< <<"src">>, <<"app", ".js">> >>)
                 = << <<"GET", <<"/users">> >>, <<"POST", <<"/users">> >> >>

\* A scan that found the same endpoint twice in one file, next to another file
\* with endpoints.
C4_Witness ==
    /\ scanOut.status = "ok" /\ scanOut.testType = "api"
    /\ Len(scanOut.scanned) >= 2
    /\ Len(scanOut.info.endpoints) >= 5
    /\ \E j, k \in 1..Len(scanOut.info.endpoints) :
          j # k /\ scanOut.info.endpoints[j] = scanOut.info.endpoints[k]

----------------------------------------------------------------------------
(* Scan, selection and generation, end to end *)

\* C5: when an endpoint discovered by the scan is selected, the generated api
\* file is the template of that endpoint: its success test requests the
\* endpoint's path with the method lower-cased, and for a POST endpoint it
\* expects status 201 and carries a payload.
C5_SelectedEndpointDrivesFile ==
    (lastGen.op = "generate" /\ lastGen.analysis = "ok" /\ lastGen.ran /\ exitCode = 0
        /\ LowerAtom(lastGen.testType) = "api"
        /\ lastGen.appInfo.selectedEndpoint \in Range(lastGen.appInfo.endpoints)) =>
        /\ files[lastGen.path].tpl = "api-endpoint"
        /\ files[lastGen.path].tests[1].url = lastGen.appInfo.selectedEndpoint.path
        /\ files[lastGen.path].tests[1].verb
              = LowerAtom(lastGen.appInfo.selectedEndpoint.method)
        /\ lastGen.appInfo.selectedEndpoint.method = "POST" =>
              /\ files[lastGen.path].tests[1].status = 201
              /\ files[lastGen.path].tests[1].payload # NoPayload

\* A generated file for the discovered POST /users.
C5_Witness ==
    /\ lastGen.op = "generate" /\ lastGen.analysis = "ok" /\ lastGen.ran /\ exitCode = 0
    /\ lastGen.testType = "api"
    /\ lastGen.appInfo.selectedEndpoint \in Range(lastGen.appInfo.endpoints)
    /\ lastGen.appInfo.selectedEndpoint.method = "POST"
    /\ files[lastGen.path].tests[1].status = 201
    /\ files[lastGen.path].tests[1].url = <<"/users">>

----------------------------------------------------------------------------
(* The structural scanner: pages *)

\* A file name without its known extension.
C6_Stem(name) ==
    IF name[Len(name)] \in {".js", ".jsx", ".ts", ".tsx"}
    THEN SubSeq(name, 1, Len(name) - 1) ELSE name

\* A bracketed segment [param] rewritten to :param.
C6_Param(segment) ==
    IF Len(segment) >= 3 /\ segment[1] = "[" /\ segment[Len(segment)] = "]"
    THEN <<":">> \o SubSeq(segment, 2, Len(segment) - 1) ELSE segment

\* The segments of the route of a file of the pages directory: the extension
\* stripped, a trailing index file name collapsed to the parent path.
C6_Segments(file) ==
    LET n == Len(file) - 1
        stems == [k \in 1..n |-> IF k = n THEN C6_Stem(file[k + 1]) ELSE file[k + 1]]
        kept == IF stems[n] = <<"index">> THEN SubSeq(stems, 1, n - 1) ELSE stems
    IN [k \in 1..Len(kept) |-> C6_Param(kept[k])]

C6_Route(file) == <<"/">> \o Join(C6_Segments(file))

\* The files of the pages directory a scan went through.
C6_PageFiles == {f \in Range(scanOut.scanned) : f[1] = <<"pages">>}

\* C6: the route of each file of the pages directory is '/' followed by its
\* relative path with the extension stripped, a trailing index collapsed to
\* the parent and [param] rewritten to :param; pages/users/[id].tsx yields
\* /users/:id and the top-level pages/index.tsx, the root route, is left out.
C6_PageRoutes ==
    (scanOut.status = "ok" /\ LowerAtom(scanOut.testType) \in {"e2e", "ui"}
        /\ scanOut.info.framework \in {"React", "Next.js"}) =>
        {r \in Range(scanOut.info.routes) : r.file[1] = <<"pages">>}
           = {[path |-> C6_Route(f), file |-> f] : f \in {g \in C6_PageFiles : C6_Route(g) # <<"/">>}}

----------------------------------------------------------------------------
(* The template selector: websocket *)

\* The verbs of the tests of the rendered template, in order.
C7_Verbs == [k \in 1..Len(tplOut.tests) |-> tplOut.tests[k].verb]

C7_IsSocketRender ==
    tplOut # NotRendered /\ LowerAtom(tplIn.testType) \in {"websocket", "ws"}

C7_HasUrl == tplIn.appInfo # None /\ Truthy(tplIn.appInfo.socketUrl)

\* C7 as stated: with a socket URL the template holds the tests connect,
\* send-receive and disconnect for that URL, with a 5 second timeout on
\* send-receive; without one it holds the same three tests against
\* ws://localhost:3000/ws.
C7_SameThreeTests ==
    C7_IsSocketRender =>
        /\ C7_Verbs = <<"open", "send", "close">>
        /\ tplOut.target = IF C7_HasUrl THEN tplIn.appInfo.socketUrl
                           ELSE <<"ws://localhost:3000/ws">>
        /\ C7_HasUrl => tplOut.tests[2].timeout = 5000

\* C7 as amended: with a socket URL as stated; without one the template holds
\* two tests only, connect and send-receive, against ws://localhost:3000/ws,
\* with no disconnect test and no timeout on send-receive.
C7_DefaultHasTwoTests ==
    C7_IsSocketRender =>
        IF C7_HasUrl
        THEN /\ C7_Verbs = <<"open", "send", "close">>
             /\ tplOut.target = tplIn.appInfo.socketUrl
             /\ tplOut.tests[2].timeout = 5000
        ELSE /\ C7_Verbs = <<"open", "send">>
             /\ tplOut.target = <<"ws://localhost:3000/ws">>
             /\ tplOut.tests[2].timeout = 0

\* A websocket template rendered without a socket URL.
C7_Witness == C7_IsSocketRender /\ ~C7_HasUrl /\ Len(tplOut.tests) = 2

----------------------------------------------------------------------------
(* The template selector: e2e / ui *)

C8_IsUiRender ==
    tplOut # NotRendered /\ LowerAtom(tplIn.testType) \in {"e2e", "ui"} /\ tplIn.appInfo # None

----------------------------------------------------------------------------
(* The substitution engine *)

\* The configuration value of a placeholder token.
C9_ValueOf(token) ==
    CASE token = "{{projectName}}" -> sIn.config.projectName
      [] token = "{{baseUrl}}" -> sIn.config.options.baseUrl
      [] token = "{{apiUrl}}" -> sIn.config.options.apiUrl
      [] token = "{{adminEmail}}" -> sIn.config.options.adminEmail
      [] token = "{{adminPassword}}" -> sIn.config.options.adminPassword
      [] token = "{{userEmail}}" -> sIn.config.options.userEmail
      [] token = "{{userPassword}}" -> sIn.config.options.userPassword

C9_Tokens ==
    {"{{projectName}}", "{{baseUrl}}", "{{apiUrl}}", "{{adminEmail}}", "{{adminPassword}}",
     "{{userEmail}}", "{{userPassword}}"}

RECURSIVE C9_Substituted(_)
\* A text with every occurrence of each token replaced by exactly its value.
C9_Substituted(text) ==
    IF text = <<>> THEN <<>>
    ELSE (IF text[1] \in C9_Tokens THEN C9_ValueOf(text[1]) ELSE <<text[1]>>)
         \o C9_Substituted(Tail(text))

\* C9: for any content and any configuration values, substitution returns the
\* content with every occurrence of each of the seven tokens replaced by
\* exactly its configuration value and all other text unchanged.
C9_ExactValues ==
    (sOut.done /\ \E e \in {".json", ".js", ".ts", ".md", ".example", ".txt", ".html"} :
                      sIn.name[Len(sIn.name)] = e) =>
        sOut.content = C9_Substituted(sIn.content)

----------------------------------------------------------------------------
(* The structural scanner: skipped directories *)

\* C10: the file list of a scan holds no path that passes through a directory
\* named node_modules, .git, dist or build, at any depth.
C10_NoSkippedDirectory ==
    scanOut.status \in {"ok", "hang"} =>
        \A i \in 1..Len(scanOut.scanned) :
            \A k \in 1..(Len(scanOut.scanned[i]) - 1) :
                scanOut.scanned[i][k] \notin { <<"node_modules">>, <<".git">>, <<"dist">>, <<"build">> }

\* A scan that returned files of a tree which holds a file three directories
\* deep below a directory named dist.
C10_Witness ==
    /\ scanOut.status = "ok"
    /\ Len(scanOut.scanned) > 0
    /\ \E p \in tree : Len(p) >= 4 /\ \E k \in 2..(Len(p) - 1) : p[k] = <<"dist">>

----------------------------------------------------------------------------
(* The generate command: an analysis that throws *)

\* The template a category gets when generateTest receives no Scan Result.
C11_GenericTpl(testType) ==
    CASE LowerAtom(testType) = "api" -> "api-generic"
      [] LowerAtom(testType) \in {"e2e", "ui"} -> "ui-generic"
      [] LowerAtom(testType) \in {"websocket", "ws"} -> "ws-default"
      [] LowerAtom(testType) \in {"performance", "perf"} -> "performance"
      [] LowerAtom(testType) = "visual" -> "visual"
      [] OTHER -> "basic"

\* Every path but the one written is as it was before the command.
C11_OthersUntouched ==
    \A p \in (DOMAIN files \cup DOMAIN lastGen.before) \ {lastGen.path} :
        p \in DOMAIN files /\ p \in DOMAIN lastGen.before /\ files[p] = lastGen.before[p]

----------------------------------------------------------------------------
(* The structural scanner: the package.json check *)

\* C12: in an application directory without package.json analyzeApplication
\* fails before any scanning: it throws, having read no file and shown no
\* prompt, and no Scan Result (no detection, no Selection) comes back, for
\* every test category.
C12_NoManifestNoScan ==
    (scanOut # NotScanned /\ ~manifest.exists) =>
        /\ scanOut.status = "error"
        /\ scanOut.scanned = <<>>
        /\ scanOut.asked = <<>>
        /\ scanOut.info = BlankInfo

\* An api scan refused in a directory that holds a route file but no
\* package.json.
C12_Witness ==
    /\ scanOut # NotScanned /\ ~manifest.exists
    /\ << <<"src">>, <<"app", ".js">> >> \in tree
    /\ scanOut.testType = "api"
    /\ scanOut.status = "error"
    /\ scanOut.scanned = <<>>

----------------------------------------------------------------------------
(* The generate command: the test structure precondition *)

\* The working directory held neither src/e2e nor tests/e2e when the last
\* command started.
C13_NoStructure ==
    <<"src", "e2e">> \notin lastGen.dirsBefore /\ <<"tests", "e2e">> \notin lastGen.dirsBefore

\* C13: whenever generateTest runs in a working directory that contains
\* neither src/e2e nor tests/e2e, the generate command ends with exit status 1,
\* having written no file and created no directory, for every test category
\* and test name.
C13_NoStructureExitsOne ==
    (lastGen.op = "generate" /\ lastGen.ran /\ C13_NoStructure) =>
        /\ exitCode = 1
        /\ files = lastGen.before
        /\ dirs = lastGen.dirsBefore
        /\ lastGen.path = <<>>

\* A performance test asked for, after a successful analysis, in a directory
\* with a package.json but no test structure.
C13_Witness ==
    /\ lastGen.op = "generate" /\ lastGen.ran /\ C13_NoStructure
    /\ lastGen.analysis = "ok"
    /\ lastGen.testType = "perf"
    /\ lastGen.testName = <<"My", " ", "Login", " ", "\n", "Flow">>
    /\ exitCode = 1
    /\ dirs = {}

----------------------------------------------------------------------------
(* The init command: the package.json check *)

\* C14: run in a directory without package.json, init ends with exit status 1
\* before any prompt is shown and before any directory or file (tests/*,
\* playwright.config.ts, .env, package.json) is created or changed.
C14_InitNeedsManifest ==
    (lastGen.op = "init" /\ ~lastGen.manifestBefore.exists) =>
        /\ exitCode = 1
        /\ lastGen.asked = <<>>
        /\ dirs = lastGen.dirsBefore
        /\ files = lastGen.before
        /\ manifest = lastGen.manifestBefore

\* init refused in a directory that holds a Playwright configuration but no
\* package.json: the configuration is still the one written by hand.
C14_Witness ==
    /\ lastGen.op = "init" /\ ~lastGen.manifestBefore.exists
    /\ exitCode = 1
    /\ dirs = {}
    /\ DOMAIN files = {<<"playwright.config.js">>}

----------------------------------------------------------------------------
(* The test command *)

\* C15: the test command ends with exit status 1 whenever the test run fails or
\* no Playwright configuration is detected; when the run fails and --report
\* was given, show-report is still run after the tests, before the exit; when
\* no configuration is detected no command is executed at all.
C15_TestExitsOne ==
    lastGen.op = "test" =>
        /\ (~lastGen.configured \/ ~lastGen.passed) => exitCode = 1
        /\ (lastGen.configured /\ ~lastGen.passed /\ lastGen.report) =>
              /\ Len(lastGen.executed) = 2
              /\ lastGen.executed[1][1] = "npx playwright test"
              /\ lastGen.executed[2] = <<"npx playwright show-report">>
        /\ ~lastGen.configured => lastGen.executed = <<>>

\* A failed run of the authentication tests with --report, after init set
\* Playwright up: the report is shown and the status is 1.
C15_Witness ==
    /\ lastGen.op = "test" /\ lastGen.configured /\ ~lastGen.passed /\ lastGen.report
    /\ <<"playwright.config.ts">> \in DOMAIN files
    /\ exitCode = 1
    /\ lastGen.executed =
          << <<"npx playwright test", "auth.spec.ts", "--project=chrome", "">>,
             <<"npx playwright show-report">> >>

----------------------------------------------------------------------------
(* The generate command: the file name *)

\* The name of the file the last generate command wrote.
C16_Written == lastGen.path[3]

\* The test name lower-cased, each run of whitespace replaced by one hyphen.
C16_Slug == Lower(CollapseWs(lastGen.testName))

\* The last generate command wrote a file where none of its name existed.
C16_WroteFirstFile ==
    lastGen.op = "generate" /\ lastGen.ran /\ exitCode = 0 /\ ~lastGen.existed

\* C16 as stated: every test name, also one that contains '.spec.', gives the
\* file <slug>.spec.ts.
C16_AlwaysSlug ==
    C16_WroteFirstFile => C16_Written = C16_Slug \o <<".spec.", "ts">>

\* C16: a test name that does not contain '.spec.' gives the file
\* <slug>.spec.ts, the slug being the name lower-cased with each run of
\* whitespace replaced by one hyphen, also for names with upper-case letters;
\* a test name that contains '.spec.' is the file name as it stands.
C16_SlugUnlessSpecName ==
    C16_WroteFirstFile =>
        C16_Written = IF \E i \in 1..Len(lastGen.testName) : lastGen.testName[i] = ".spec."
                      THEN lastGen.testName
                      ELSE C16_Slug \o <<".spec.", "ts">>

\* The name "Login.spec.js" written as it stands, capital and extension kept.
C16_Witness ==
    /\ C16_WroteFirstFile
    /\ lastGen.testName = <<"Login", ".spec.", "js">>
    /\ C16_Written = <<"Login", ".spec.", "js">>
    /\ lastGen.path \in DOMAIN files

----------------------------------------------------------------------------
(* The template selector: the fallback *)

\* The categories generateTestContent has a case for.
C17_DispatchSet == {"api", "e2e", "ui", "websocket", "ws", "performance", "perf", "visual"}

\* The generic fallback text for a test name.
C17_Fallback(testName) ==
    [tpl |-> "basic", describe |-> testName, target |-> <<"/">>,
     tests |-> << [title |-> <<"basic test">>, verb |-> "title", url |-> <<>>,
                   payload |-> "none", status |-> 0, timeout |-> 0] >>]

----------------------------------------------------------------------------
(* The structural scanner: Vue projects *)

\* The component and route declarations in the .jsx and .tsx files of the
\* application directory.
C18_Components == UiComponentsOf(findFiles(tree, <<>>, {".jsx", ".tsx"}))
C18_Routes == UiRoutesOf(findFiles(tree, <<>>, {".jsx", ".tsx"}))

\* C18: an e2e or ui scan of a project whose detected framework is Vue
\* returns a non-empty components list when the source files hold a matching
\* component declaration, and a non-empty routes list when they hold a
\* matching route declaration, as it does for React.
C18_VueScanDetects ==
    (scanOut.status = "ok" /\ LowerAtom(scanOut.testType) \in {"e2e", "ui"}
        /\ scanOut.info.framework = "Vue") =>
        /\ Len(C18_Components) > 0 => Len(scanOut.info.components) > 0
        /\ Len(C18_Routes) > 0 => Len(scanOut.info.routes) > 0

----------------------------------------------------------------------------
(* The structural scanner: websockets *)

\* The last scan was a websocket scan of a directory with a package.json.
C19_SocketScan ==
    /\ scanOut # NotScanned
    /\ manifest.exists
    /\ LowerAtom(scanOut.testType) \in {"websocket", "ws"}

\* A scanned file whose content matches the identifier-presence pattern.
C19_PresenceIn(file) ==
    \E i \in 1..Len(Universe[file]) :
        Universe[file][i] \in {"WebSocket", "websocket", "ws", "WS", "socket.io", "socketio",
                               "sock", "ws://localhost:8080", "ws://localhost:3000/ws"}

\* The strings the three URL-capturing patterns capture in a file.
C19_CapturedUrls(file) ==
    {m.capture : m \in UNION {Range(SocketExecAll(Universe[file], 1, pat)) :
                                pat \in {"newWebSocket", "io", "socketConnect"}}}

\* The entries of the scan, none when the list was never filled.
C19_Entries ==
    IF scanOut.info.socketImplementations = None THEN {}
    ELSE Range(scanOut.info.socketImplementations)

\* C19: in a websocket scan hasWebSockets is true whenever a scanned file
\* matches the identifier-presence pattern, and the url of every
\* SocketImplementation entry is a string one of the three URL-capturing
\* patterns captured in its file, never the identifier the presence pattern
\* matched.
C19_FlagSetAndUrlsCaptured ==
    C19_SocketScan =>
        /\ (\E i \in 1..Len(scanOut.scanned) : C19_PresenceIn(scanOut.scanned[i]))
              => scanOut.info.hasWebSockets
        /\ \A e \in C19_Entries : e.url \in C19_CapturedUrls(e.file)

\* C20: the websocket scan terminates for every directory tree and every file
\* content, also for files whose content matches the identifier-presence
\* pattern: it returns a result (or throws), it never stays in a matching loop.
C20_SocketScanTerminates ==
    (scanOut # NotScanned /\ LowerAtom(scanOut.testType) \in {"websocket", "ws"}) =>
        scanOut.status \in {"ok", "error"}

----------------------------------------------------------------------------
(* The structural scanner: the socket URLs offered *)

\* The urls of the entries a websocket scan returned, in order, duplicates kept.
C21_Urls ==
    [i \in 1..Len(scanOut.info.socketImplementations) |->
        scanOut.info.socketImplementations[i].url]

\* The index at which a url first occurs among the entries.
C21_First(u) == CHOOSE i \in 1..Len(C21_Urls) : C21_Urls[i] = u /\ \A j \in 1..(i - 1) : C21_Urls[j] # u

\* How many times a URL pattern captures u in a file, and how many entries of
\* the scan carry that file and u.
C21_Matches(file, u, pat) ==
    Cardinality({k \in 1..Len(SocketExecAll(Universe[file], 1, pat)) :
                    SocketExecAll(Universe[file], 1, pat)[k].capture = u})
C21_Entries(file, u) ==
    Cardinality({k \in 1..Len(scanOut.info.socketImplementations) :
                    scanOut.info.socketImplementations[k] = [file |-> file, url |-> u]})

\* A websocket scan returned entries.
C21_Returned ==
    /\ scanOut # NotScanned /\ scanOut.status = "ok"
    /\ LowerAtom(scanOut.testType) \in {"websocket", "ws"}
    /\ scanOut.info.socketImplementations # None

\* C21: the socket URLs offered as choices are the distinct urls of the
\* collected entries, each exactly once, in order of first occurrence, however
\* often a URL was matched; the socketImplementations list keeps one entry per
\* match, duplicates included.
C21_ChoicesDistinctInOrder ==
    C21_Returned =>
        /\ {scanOut.offered[i] : i \in 1..Len(scanOut.offered)}
              = {C21_Urls[i] : i \in 1..Len(C21_Urls)}
        /\ \A i, j \in 1..Len(scanOut.offered) :
              i < j => C21_First(scanOut.offered[i]) < C21_First(scanOut.offered[j])
        /\ \A i \in 1..Len(scanOut.scanned), u \in Range(C21_Urls) :
              C21_Entries(scanOut.scanned[i], u)
                 = C21_Matches(scanOut.scanned[i], u, "newWebSocket")
                   + C21_Matches(scanOut.scanned[i], u, "io")
                   + C21_Matches(scanOut.scanned[i], u, "socketConnect")

\* A scan of src/socket.js: three entries, the URL of port 4000 twice, and two
\* choices, port 5000 first.
C21_Witness ==
    /\ C21_Returned
    /\ C21_Urls = << <<"http://localhost:5000">>, <<"http://localhost:4000">>,
                     <<"http://localhost:4000">> >>
    /\ scanOut.offered = << <<"http://localhost:5000">>, <<"http://localhost:4000">> >>

----------------------------------------------------------------------------
(* The structural scanner: findFiles *)

\* The roots findFiles is tried on: the application directory, two of its
\* directories, and a directory that is not there.
C22_Roots == { <<>>, << <<"src">> >>, << <<"pages">> >>, << <<"missing">> >> }

\* The regular files below root whose name ends with one of the extensions and
\* that lie beneath no directory named node_modules, .git, dist or build.
C22_Wanted(root, exts) ==
    {p \in tree :
        /\ Len(p) > Len(root) /\ SubSeq(p, 1, Len(root)) = root
        /\ p[Len(p)][Len(p[Len(p)])] \in exts
        /\ \A k \in (Len(root) + 1)..(Len(p) - 1) :
              p[k] \notin { <<"node_modules">>, <<".git">>, <<"dist">>, <<"build">> }}

\* A list that holds exactly the wanted files, each once.
C22_Exactly(list, wanted) ==
    {list[i] : i \in 1..Len(list)} = wanted /\ Len(list) = Cardinality(wanted)

\* C22: findFiles returns the empty list for a root that does not exist, and
\* otherwise exactly the regular files below the root that are beneath no
\* directory named node_modules, .git, dist or build and whose name ends with
\* one of the requested extensions, each once; the file list of an api scan is
\* that list for the application directory.
C22_FindFilesExact ==
    /\ scanOut = NotScanned => findFiles(tree, << <<"missing">> >>, ScriptExts) = <<>>
    /\ scanOut = NotScanned => \A root \in C22_Roots :
          /\ C22_Exactly(findFiles(tree, root, ScriptExts), C22_Wanted(root, ScriptExts))
          /\ C22_Exactly(findFiles(tree, root, {".tsx"}), C22_Wanted(root, {".tsx"}))
    /\ (scanOut.status = "ok" /\ scanOut.testType = "api") =>
          C22_Exactly(scanOut.scanned, C22_Wanted(<<>>, {".js", ".ts", ".jsx", ".tsx"}))

\* An api scan of a tree with a script, a markdown file and a script below
\* dist: the script alone is listed.
C22_Witness ==
    /\ scanOut.status = "ok" /\ scanOut.testType = "api"
    /\ tree = { << <<"src">>, <<"app", ".js">> >>, << <<"src">>, <<"notes", ".md">> >>,
                << <<"src">>, <<"lib">>, <<"dist">>, <<"deep">>, <<"x", ".ts">> >> }
    /\ scanOut.scanned = << << <<"src">>, <<"app", ".js">> >> >>

----------------------------------------------------------------------------
(* Placeholder substitution: the files left alone *)

\* The file name ends in one of the seven extensions whose content is rewritten.
C23_Rewritten ==
    sIn.name[Len(sIn.name)] \in {".json", ".js", ".ts", ".md", ".example", ".txt", ".html"}

\* C23: substitution leaves the content of every copied file whose name does
\* not end in .json, .js, .ts, .md, .example, .txt or .html as it was in the
\* template, and changes no file name, also when the name holds a placeholder
\* token.
C23_OnlyListedExtensions ==
    sOut.done =>
        /\ sOut.name = sIn.name
        /\ ~C23_Rewritten => sOut.content = sIn.content

\* The copied logo.png holds a project-name token and keeps it.
C23_Witness ==
    /\ sOut.done
    /\ sIn.name = <<"logo", ".png">>
    /\ sIn.content = <<"{{projectName}}", "text">>
    /\ sOut.content = <<"{{projectName}}", "text">>

----------------------------------------------------------------------------
(* Template selector: what the text depends on *)

\* The analysis results that agree with appInfo on framework and on every
\* selection field, with any scan flags and any discovered lists.
C24_SameSelection(appInfo) ==
    {[appInfo EXCEPT !.hasAuthentication = a, !.hasForms = f, !.hasWebSockets = w,
                     !.endpoints = es, !.components = cs, !.routes = rs] :
        a \in BOOLEAN, f \in BOOLEAN, w \in BOOLEAN,
        es \in {<<>>, <<[method |-> "POST", path |-> <<"/users">>, file |-> None]>>},
        cs \in {<<>>, <<SomeComponent>>}, rs \in {<<>>, <<SomeRoute>>}}

\* C24: for a fixed category, test name and selection fields, analysis results
\* that differ only in hasAuthentication, hasForms, hasWebSockets or in the
\* endpoints, components and routes lists yield the same template text.
C24_FlagsNotConsumed ==
    (tplOut # NotRendered /\ tplIn.appInfo # None) =>
        \A other \in C24_SameSelection(tplIn.appInfo) :
            Template(tplIn.testType, tplIn.testName, other) = tplOut

\* A UI template was rendered for an analysis with forms found and nothing
\* selected, and the analysis without forms gives the same text.
C24_Witness ==
    /\ tplOut # NotRendered
    /\ tplIn.testType = "ui"
    /\ tplIn.appInfo # None
    /\ tplIn.appInfo.hasForms
    /\ tplIn.appInfo.testTarget = "general"
    /\ tplOut = Template("ui", tplIn.testName, [tplIn.appInfo EXCEPT !.hasForms = FALSE])

----------------------------------------------------------------------------
(* The create command: the directory skeleton *)

\* C25: create always makes src/api, src/config, src/e2e, src/utils and
\* src/models below the project path, whether or not the installation that
\* follows succeeds, and src/websocket, src/performance and src/visual are
\* there afterwards exactly when the feature was selected (or the directory
\* was there before).
C25_Skeleton ==
    lastGen.op = "create" =>
        /\ \A d \in {"api", "config", "e2e", "utils", "models"} : <<"src", d>> \in dirs
        /\ \A feature \in {"websocket", "performance", "visual"} :
              <<"src", feature>> \in dirs
              <=> (feature \in lastGen.features \/ <<"src", feature>> \in lastGen.dirsBefore)
        /\ lastGen.dirsBefore \subseteq dirs

\* create ran with websocket and visual selected and performance not: the
\* first two directories are there, the third is not.
C25_Witness ==
    /\ lastGen.op = "create"
    /\ lastGen.features = {"auth", "api", "ui", "websocket", "visual"}
    /\ <<"src", "websocket">> \in dirs
    /\ <<"src", "visual">> \in dirs
    /\ <<"src", "performance">> \notin dirs
    /\ <<"src", "models">> \in dirs

----------------------------------------------------------------------------
(* The generate command: the endpoint of an API analysis *)

\* The last command was a generate of category api whose analysis returned.
C26_ApiAnalysed ==
    /\ lastGen.op = "generate"
    /\ LowerAtom(lastGen.testType) = "api"
    /\ lastGen.analysis = "ok"

\* C26: after an api analysis that returned, selectedEndpoint is set, its
\* method is GET, POST, PUT, DELETE or PATCH, it is one of the endpoints found
\* when there are any and else an endpoint typed in, with no source file; and
\* the file such a generate writes is never the generic API template.
C26_EndpointSelected ==
    C26_ApiAnalysed =>
        LET info == lastGen.appInfo
            e == info.selectedEndpoint
        IN /\ info # None
           /\ e # None
           /\ e.method \in {"GET", "POST", "PUT", "DELETE", "PATCH"}
           /\ Len(info.endpoints) > 0 => \E i \in 1..Len(info.endpoints) : info.endpoints[i] = e
           /\ Len(info.endpoints) = 0 => e.file = None
           /\ e.file = None => Len(info.endpoints) = 0
           /\ lastGen.path # <<>> => files[lastGen.path].tpl = "api-endpoint"

\* An api analysis found no endpoint, the endpoint was typed in, and the file
\* written is the endpoint template.
C26_Witness ==
    /\ C26_ApiAnalysed
    /\ lastGen.appInfo.endpoints = <<>>
    /\ lastGen.appInfo.selectedEndpoint.file = None
    /\ lastGen.path # <<>>
    /\ files[lastGen.path].tpl = "api-endpoint"

\* An api analysis found endpoints and one of them was selected.
C26_WitnessFound ==
    /\ C26_ApiAnalysed
    /\ Len(lastGen.appInfo.endpoints) > 0
    /\ lastGen.appInfo.selectedEndpoint = lastGen.appInfo.endpoints[1]
    /\ lastGen.path # <<>>

----------------------------------------------------------------------------
(* Structural Scanner: the selections of a UI analysis *)

\* The analysis of category e2e or ui returned.
C27_UiAnalysed ==
    /\ scanOut # NotScanned
    /\ scanOut.status = "ok"
    /\ LowerAtom(scanOut.testType) \in {"e2e", "ui"}

\* C27: after a UI analysis returns, testTarget and testUrl are never both
\* set; testUrl is set only when no component and no route was found and
\* testTarget only when one was; a selected component is one of the
\* components found, a selected route one of the routes found, and formPath
\* is set only when testTarget is 'form'.
C27_UiSelections ==
    C27_UiAnalysed =>
        LET info == scanOut.info
            found == Len(info.components) > 0 \/ Len(info.routes) > 0
        IN /\ ~(info.testTarget # "undefined" /\ info.testUrl # None)
           /\ info.testUrl # None => ~found
           /\ info.testTarget # "undefined" => found
           /\ (info.testTarget = "component" /\ info.selectedComponent # None)
                 => \E i \in 1..Len(info.components) : info.components[i] = info.selectedComponent
           /\ (info.testTarget = "route" /\ info.selectedRoute # None)
                 => \E i \in 1..Len(info.routes) : info.routes[i] = info.selectedRoute
           /\ info.formPath # None => info.testTarget = "form"

\* A UI analysis found a component and a form, the form was chosen and its
\* path typed in, and no URL was asked for.
C27_Witness ==
    /\ C27_UiAnalysed
    /\ Len(scanOut.info.components) > 0
    /\ scanOut.info.testTarget = "form"
    /\ scanOut.info.formPath = <<"/", "login">>
    /\ scanOut.info.testUrl = None

\* A UI analysis found nothing and the URL was typed in.
C27_WitnessUrl ==
    /\ C27_UiAnalysed
    /\ scanOut.info.components = <<>>
    /\ scanOut.info.routes = <<>>
    /\ scanOut.info.testTarget = "undefined"
    /\ scanOut.info.testUrl = <<"/", "login">>

\* A UI analysis found routes and one was selected.
C27_WitnessRoute ==
    /\ C27_UiAnalysed
    /\ scanOut.info.testTarget = "route"
    /\ scanOut.info.selectedRoute # None
    /\ scanOut.info.selectedComponent = None

----------------------------------------------------------------------------
(* The generate command: aliases and letter case of the category *)

\* The spellings of each category of the dispatch set, with its directory.
C28_Spellings ==
    { [dir |-> "api", names |-> {"api", "API", "Api"}],
      [dir |-> "e2e", names |-> {"e2e", "E2E", "ui", "UI", "Ui"}],
      [dir |-> "websocket", names |-> {"websocket", "WebSocket", "ws", "WS"}],
      [dir |-> "performance", names |-> {"performance", "Performance", "perf", "Perf"}],
      [dir |-> "visual", names |-> {"visual", "Visual"}] }

\* C28: a generate that writes a file for a category of the dispatch set, in
\* any spelling or alias, writes it into the directory of the category, and
\* every other spelling or alias of that category gives the same directory
\* and, for the same name and selection, the same template text.
C28_AliasesAndCase ==
    (lastGen.op = "generate" /\ lastGen.path # <<>>) =>
        \A c \in C28_Spellings :
            lastGen.testType \in c.names =>
                /\ lastGen.path[2] = c.dir
                /\ \A other \in c.names :
                      /\ TargetDir(other) = c.dir
                      /\ Template(other, lastGen.testName, lastGen.appInfo)
                            = files[lastGen.path]

\* A generate of 'API' wrote into the api directory the text a generate of
\* 'api' writes.
C28_Witness ==
    /\ lastGen.op = "generate"
    /\ lastGen.testType = "API"
    /\ lastGen.path # <<>>
    /\ lastGen.path[2] = "api"
    /\ files[lastGen.path] = Template("api", lastGen.testName, lastGen.appInfo)
    /\ files[lastGen.path].tpl \in {"api-endpoint", "api-generic"}

----------------------------------------------------------------------------
(* The test command: a report viewer that fails *)

\* C29: when the test run of the test command succeeds the command does not
\* exit with status 1, also when --report is set and the report viewer fails.
C29_PassedRunExitsZero ==
    (lastGen.op = "test" /\ lastGen.passed) => exitCode = 0

----------------------------------------------------------------------------
(* create or init, then generate *)

\* The step is a generate that reaches generateTest right after a create or
\* an init that completed.
C30_GenerateFollowsSetup ==
    /\ lastGen.op \in {"create", "init"}
    /\ exitCode = 0
    /\ lastGen'.op = "generate"
    /\ lastGen'.ran

\* C30: a generate that follows a completed create or a completed init in
\* the same directory does not fail for want of a test structure (create
\* leaves src/e2e, init leaves tests/e2e); and every generate that writes a
\* file writes it under src/<category> when src/e2e exists, also when
\* tests/e2e exists too, and under tests/<category> only when src/e2e does not.
C30_SetupThenGenerate ==
    [][ /\ C30_GenerateFollowsSetup =>
            /\ lastGen.op = "create" => <<"src", "e2e">> \in dirs
            /\ lastGen.op = "init" => <<"tests", "e2e">> \in dirs
            /\ exitCode' = 0
            /\ lastGen'.path # <<>>
        /\ (lastGen'.op = "generate" /\ lastGen'.path # <<>>) =>
            /\ lastGen'.path[1] = (IF <<"src", "e2e">> \in dirs THEN "src" ELSE "tests")
            /\ lastGen'.path[2] = TargetDir(lastGen'.testType)
            /\ lastGen'.path \in DOMAIN files'
      ]_vars

\* After a completed setup both src/e2e and tests/e2e were there, and the
\* generate that followed wrote under src.
C30_Witness ==
    /\ lastGen.op = "generate"
    /\ calls = 2
    /\ "dotenv" \in manifest.deps
    /\ <<"src", "e2e">> \in lastGen.dirsBefore
    /\ <<"tests", "e2e">> \in lastGen.dirsBefore
    /\ lastGen.path # <<>>
    /\ lastGen.path[1] = "src"
    /\ exitCode = 0

\* After a completed init in a directory without src/e2e, the generate that
\* followed wrote under tests.
C30_WitnessTests ==
    /\ lastGen.op = "generate"
    /\ calls = 2
    /\ "dotenv" \in manifest.deps
    /\ <<"src", "e2e">> \notin lastGen.dirsBefore
    /\ lastGen.path # <<>>
    /\ lastGen.path[1] = "tests"

====
